---------------------------- MODULE Spec2Model ----------------------------
(***************************************************************************)
(* puzzlePrint: jigsaw partition geometry (utils/puzzleGeometry.js), the   *)
(* snap-match engine (checkSnapPossibility / findSnapTargets), the redux   *)
(* pose store (store/slices/puzzleSlice) and the pointer-driven viewer     *)
(* (ThreeViewer with GameControls).                                        *)
(*                                                                         *)
(* Numbers.  JavaScript numbers are modelled as fixed-point integers:      *)
(*   - a length is an integer count of 1/LenScale millimetre;              *)
(*   - an angle is an integer count of 1/RotScale radian, so one pixel of  *)
(*     a rotate drag (0.01 rad) is one unit;                               *)
(*   - Math.sin / Math.cos are tables of the true values times TrigScale,  *)
(*     rounded to the nearest integer;                                     *)
(*   - the distance of the snap engine is kept as its square (distance2),  *)
(*     which orders and compares exactly as the distance itself.           *)
(* JavaScript arrays are functions on 0..n-1, so indices are the code's.   *)
(***************************************************************************)
EXTENDS Integers, Sequences, FiniteSets, TLC

(* ------------------------------ bounds -------------------------------- *)

\* largest gridX and gridY drawn for the geometry specification
MaxGrid == 3

(* --------------------------- number model ----------------------------- *)

LenScale == 10
RotScale == 100
TrigScale == 1000

Abs(a) == IF a < 0 THEN -a ELSE a

\* a / b rounded to the nearest integer, halves away from zero (b > 0)
RoundDiv(a, b) == IF a >= 0 THEN (2 * a + b) \div (2 * b) ELSE -((2 * (-a) + b) \div (2 * b))

Min2(a, b) == IF a < b THEN a ELSE b
Max2(a, b) == IF a > b THEN a ELSE b

\* JavaScript array helpers (arrays are functions on 0..n-1)
EmptyArr == << >>
ArrLen(a) == Cardinality(DOMAIN a)
Push(a, e) == [k \in 0..ArrLen(a) |-> IF k < ArrLen(a) THEN a[k] ELSE e]
RECURSIVE PushAll(_, _)
PushAll(a, s) == IF s = << >> THEN a ELSE PushAll(Push(a, Head(s)), Tail(s))
\* s.slice(from) and s.slice(from, -1) of a 1-based TLA+ sequence holding a
\* JavaScript array whose index 0 is s[1]
SliceFrom(s, from) == SubSeq(s, from + 1, Len(s))
SliceFromButLast(s, from) == SubSeq(s, from + 1, Len(s) - 1)

(* ---------------------- boundary curve generator ---------------------- *)

SplitModes == {"straight", "wave", "zigzag"}

\* default sampling resolution of generateHorizontalEdge / generateVerticalEdge
Segments == 30

\* Math.sin(2*pi*k/15) * TrigScale for k = 0..14: the values Math.sin takes
\* at t*pi*4 for the sample parameters t = i/30
SinTable == <<0, 407, 743, 951, 995, 866, 588, 208, -208, -588, -866, -995, -951, -743, -407>>
SinFourPi(i) == SinTable[(i % 15) + 1]

\* splitOffset(t, mode, amplitude) at t = i / Segments
splitOffsetBiased(i, mode, amplitude) ==
    CASE mode = "wave" -> RoundDiv(SinFourPi(i) * amplitude, TrigScale)
      [] mode = "zigzag" ->
            LET zt30 == (8 * i) % Segments
                tri30 == IF 2 * zt30 < Segments THEN 2 * zt30 ELSE 2 * (Segments - zt30)
            IN  RoundDiv(2 * tri30 * amplitude - Segments * amplitude, 2 * Segments)
      [] OTHER -> amplitude

splitOffset(i, mode, amplitude) ==
    CASE mode = "wave" -> RoundDiv(SinFourPi(i) * amplitude, TrigScale)
      [] mode = "zigzag" ->
            LET zt30 == (8 * i) % Segments
                tri30 == IF 2 * zt30 < Segments THEN 2 * zt30 ELSE 2 * (Segments - zt30)
            IN  RoundDiv(2 * tri30 * amplitude - Segments * amplitude, 2 * Segments)
      [] OTHER -> 0

\* points are <<x, y>>; the i-th sample is element i+1 of the sequence
generateHorizontalEdge(xStart, xEnd, Y, splitMode, amplitude) ==
    [j \in 1..(Segments + 1) |->
        LET i == j - 1
        IN  << xStart + RoundDiv((xEnd - xStart) * i, Segments),
               Y + splitOffset(i, splitMode, amplitude) >>]

generateVerticalEdge(X, yStart, yEnd, splitMode, amplitude) ==
    [j \in 1..(Segments + 1) |->
        LET i == j - 1
        IN  << X + splitOffset(i, splitMode, amplitude),
               yStart + RoundDiv((yEnd - yStart) * i, Segments) >>]

(* -------------------------- piece partitioner ------------------------- *)

\* the frame with an amplitude taken from the cell width alone
PieceFrameWidthAmplitude(col, row, params) ==
    LET halfW == params.width \div 2
        halfH == params.height \div 2
        pieceW == params.width \div params.gridX
        pieceH == params.height \div params.gridY
        xLeft == -halfW + col * pieceW
        yBottom == -halfH + row * pieceH
    IN  [ amplitude |-> RoundDiv(pieceW * 8, 100),
          xLeft |-> xLeft, xRight |-> xLeft + pieceW,
          yBottom |-> yBottom, yTop |-> yBottom + pieceH,
          centerX |-> (xLeft + (xLeft + pieceW)) \div 2,
          centerY |-> (yBottom + (yBottom + pieceH)) \div 2 ]

\* the corner coordinates and amplitude createPieceShape derives from params
PieceFrame(col, row, params) ==
    LET halfW == params.width \div 2
        halfH == params.height \div 2
        pieceW == params.width \div params.gridX
        pieceH == params.height \div params.gridY
        xLeft == -halfW + col * pieceW
        yBottom == -halfH + row * pieceH
    IN  [ amplitude |-> RoundDiv(Min2(pieceW, pieceH) * 8, 100),
          xLeft |-> xLeft, xRight |-> xLeft + pieceW,
          yBottom |-> yBottom, yTop |-> yBottom + pieceH,
          centerX |-> (xLeft + (xLeft + pieceW)) \div 2,
          centerY |-> (yBottom + (yBottom + pieceH)) \div 2 ]

\* the four segments createPieceShape appends to outline, in order
BottomSegment(col, row, params) ==
    LET f == PieceFrame(col, row, params)
    IN  IF row = 0
        THEN << <<f.xLeft, f.yBottom>>, <<f.xRight, f.yBottom>> >>
        ELSE generateHorizontalEdge(f.xLeft, f.xRight, f.yBottom, params.splitMode, f.amplitude)

RightSegment(col, row, params) ==
    LET f == PieceFrame(col, row, params)
    IN  IF col = params.gridX - 1
        THEN << <<f.xRight, f.yTop>> >>
        ELSE SliceFrom(generateVerticalEdge(f.xRight, f.yBottom, f.yTop, params.splitMode, f.amplitude), 1)

TopSegment(col, row, params) ==
    LET f == PieceFrame(col, row, params)
    IN  IF row = params.gridY - 1
        THEN << <<f.xLeft, f.yTop>> >>
        ELSE SliceFrom(generateHorizontalEdge(f.xRight, f.xLeft, f.yTop, params.splitMode, f.amplitude), 1)

LeftSegment(col, row, params) ==
    LET f == PieceFrame(col, row, params)
    IN  IF col = 0
        THEN << >>
        ELSE SliceFromButLast(generateVerticalEdge(f.xLeft, f.yTop, f.yBottom, params.splitMode, f.amplitude), 1)

\* outline: the ring in global coordinates, clockwise from the bottom-left corner
PieceOutline(col, row, params) ==
    BottomSegment(col, row, params) \o RightSegment(col, row, params)
        \o TopSegment(col, row, params) \o LeftSegment(col, row, params)

createPieceShape(col, row, params) ==
    LET f == PieceFrame(col, row, params)
        outline == PieceOutline(col, row, params)
    IN  [ shape |-> [j \in 1..Len(outline) |-> << outline[j][1] - f.centerX, outline[j][2] - f.centerY >>],
          centerX |-> f.centerX,
          centerY |-> f.centerY ]

\* createPieceGeometry: the extrusion and the UV rewrite belong to the
\* rendering library; the shape and the centroid are what it hands on
createPieceGeometry(col, row, params) ==
    LET s == createPieceShape(col, row, params)
    IN  [ geometry |-> s.shape, centerX |-> s.centerX, centerY |-> s.centerY ]

(* --------------------------- adjacency index -------------------------- *)

NoNeighbor == -1

pieceNeighborsWrongStride(col, row, gridX, gridY) ==
    [ left   |-> IF col > 0 THEN row * gridX + (col - 1) ELSE NoNeighbor,
      right  |-> IF col < gridX - 1 THEN row * gridX + (col + 1) ELSE NoNeighbor,
      bottom |-> IF row > 0 THEN (row - 1) * gridX + col ELSE NoNeighbor,
      top    |-> IF row < gridY - 1 THEN (row + 1) * gridY + col ELSE NoNeighbor ]

pieceNeighbors(col, row, gridX, gridY) ==
    [ left   |-> IF col > 0 THEN row * gridX + (col - 1) ELSE NoNeighbor,
      right  |-> IF col < gridX - 1 THEN row * gridX + (col + 1) ELSE NoNeighbor,
      bottom |-> IF row > 0 THEN (row - 1) * gridX + col ELSE NoNeighbor,
      top    |-> IF row < gridY - 1 THEN (row + 1) * gridX + col ELSE NoNeighbor ]

\* the nested for loops of generateAllPieces
RECURSIVE generateLoopColumnFirst(_, _, _, _, _)
generateLoopColumnFirst(params, row, col, index, pieces) ==
    IF col >= params.gridX THEN pieces
    ELSE IF row >= params.gridY THEN generateLoopColumnFirst(params, 0, col + 1, index, pieces)
    ELSE LET g == createPieceGeometry(col, row, params)
             piece == [ geometry |-> g.geometry, centerX |-> g.centerX, centerY |-> g.centerY,
                        col |-> col, row |-> row, index |-> index,
                        neighbors |-> pieceNeighbors(col, row, params.gridX, params.gridY) ]
         IN  generateLoopColumnFirst(params, row + 1, col, index + 1, Push(pieces, piece))

RECURSIVE generateLoop(_, _, _, _, _)
generateLoop(params, row, col, index, pieces) ==
    IF row >= params.gridY THEN pieces
    ELSE IF col >= params.gridX THEN generateLoop(params, row + 1, 0, index, pieces)
    ELSE LET g == createPieceGeometry(col, row, params)
             piece == [ geometry |-> g.geometry, centerX |-> g.centerX, centerY |-> g.centerY,
                        col |-> col, row |-> row, index |-> index,
                        neighbors |-> pieceNeighbors(col, row, params.gridX, params.gridY) ]
         IN  generateLoop(params, row, col + 1, index + 1, Push(pieces, piece))

generateAllPieces(params) == generateLoop(params, 0, 0, 0, EmptyArr)

(* --------------------------- snap-match engine ------------------------ *)

\* 2 * Math.PI and the 0.1 rad rotation tolerance, in angle units
TwoPi == 628
RotTolerance == 10

\* Math.cos / Math.sin (times TrigScale) at the angles the model draws
CosTable ==
    (0 :> 1000) @@ (5 :> 999) @@ (9 :> 996) @@ (10 :> 995) @@ (157 :> 1) @@ (-157 :> 1)
        @@ (314 :> -1000) @@ (626 :> 1000) @@ (1256 :> 1000)
SinTable2 ==
    (0 :> 0) @@ (5 :> 50) @@ (9 :> 90) @@ (10 :> 100) @@ (157 :> 1000) @@ (-157 :> -1000)
        @@ (314 :> 2) @@ (626 :> -23) @@ (1256 :> -6)
Cos(a) == CosTable[a]
Sin(a) == SinTable2[a]

\* the value of a missing property, a missing array element and a null result
UndefinedIndex == -2
Undefined == [undefined |-> TRUE]
Null == [null |-> TRUE]
\* the distance Infinity (larger than every squared distance of the model)
Infinity == 2147483647

\* a[k] of a JavaScript array: undefined outside the array
ArrGet(a, k) == IF k \in DOMAIN a THEN a[k] ELSE Undefined
\* piece.index of a transform object: undefined when the object has no index
IndexOf(piece) == IF "index" \in DOMAIN piece THEN piece.index ELSE UndefinedIndex

\* the fixed-point product a * (c / TrigScale)
TrigMul(a, c) == RoundDiv(a * c, TrigScale)

SnapEdge(neighbors, index2) ==
    IF neighbors.left = index2 THEN "left"
    ELSE IF neighbors.right = index2 THEN "right"
    ELSE IF neighbors.bottom = index2 THEN "bottom"
    ELSE IF neighbors.top = index2 THEN "top"
    ELSE "none"

rotationMatchesNoWrap(rotation1, rotation2) ==
    LET rotationDiff == Abs(rotation1 - rotation2) % TwoPi
    IN  rotationDiff < RotTolerance

rotationMatchesQuarterTurn(rotation1, rotation2) ==
    LET rotationDiff == Abs(rotation1 - rotation2) % (TwoPi \div 4)
    IN  rotationDiff < RotTolerance \/ Abs(rotationDiff - TwoPi) < RotTolerance

rotationMatches(rotation1, rotation2) ==
    LET rotationDiff == Abs(rotation1 - rotation2) % TwoPi
    IN  rotationDiff < RotTolerance \/ Abs(rotationDiff - TwoPi) < RotTolerance

checkSnapPossibilityKeepRotation(piece1, piece2, piecesInfo, threshold) ==
    LET info1 == ArrGet(piecesInfo, IndexOf(piece1))
        info2 == ArrGet(piecesInfo, IndexOf(piece2))
    IN  IF info1 = Undefined \/ info2 = Undefined THEN Null
        ELSE
        LET edge == SnapEdge(info1.neighbors, IndexOf(piece2))
        IN  IF edge = "none" THEN Null
            ELSE
            LET originalDx == info1.centerX - info2.centerX
                originalDy == info1.centerY - info2.centerY
            IN  IF ~rotationMatches(piece1.rotation, piece2.rotation)
                THEN [canSnap |-> FALSE, distance2 |-> Infinity, edge |-> edge]
                ELSE
                LET currentDx == piece1.x - piece2.x
                    currentDy == piece1.y - piece2.y
                    angle == piece2.rotation
                    rotatedDx == TrigMul(originalDx, Cos(angle)) - TrigMul(originalDy, Sin(angle))
                    rotatedDy == TrigMul(originalDx, Sin(angle)) + TrigMul(originalDy, Cos(angle))
                    diffX == currentDx - rotatedDx
                    diffY == currentDy - rotatedDy
                    distance2 == diffX * diffX + diffY * diffY
                IN  IF distance2 <= threshold * threshold
                    THEN [canSnap |-> TRUE, distance2 |-> distance2, edge |-> edge,
                          targetX |-> piece2.x + rotatedDx,
                          targetY |-> piece2.y + rotatedDy,
                          targetRotation |-> piece1.rotation]
                    ELSE [canSnap |-> FALSE, distance2 |-> distance2, edge |-> edge]

checkSnapPossibilityStrict(piece1, piece2, piecesInfo, threshold) ==
    LET info1 == ArrGet(piecesInfo, IndexOf(piece1))
        info2 == ArrGet(piecesInfo, IndexOf(piece2))
    IN  IF info1 = Undefined \/ info2 = Undefined THEN Null
        ELSE
        LET edge == SnapEdge(info1.neighbors, IndexOf(piece2))
        IN  IF edge = "none" THEN Null
            ELSE
            LET originalDx == info1.centerX - info2.centerX
                originalDy == info1.centerY - info2.centerY
            IN  IF ~rotationMatches(piece1.rotation, piece2.rotation)
                THEN [canSnap |-> FALSE, distance2 |-> Infinity, edge |-> edge]
                ELSE
                LET currentDx == piece1.x - piece2.x
                    currentDy == piece1.y - piece2.y
                    angle == piece2.rotation
                    rotatedDx == TrigMul(originalDx, Cos(angle)) - TrigMul(originalDy, Sin(angle))
                    rotatedDy == TrigMul(originalDx, Sin(angle)) + TrigMul(originalDy, Cos(angle))
                    diffX == currentDx - rotatedDx
                    diffY == currentDy - rotatedDy
                    distance2 == diffX * diffX + diffY * diffY
                IN  IF distance2 < threshold * threshold
                    THEN [canSnap |-> TRUE, distance2 |-> distance2, edge |-> edge,
                          targetX |-> piece2.x + rotatedDx,
                          targetY |-> piece2.y + rotatedDy,
                          targetRotation |-> piece2.rotation]
                    ELSE [canSnap |-> FALSE, distance2 |-> distance2, edge |-> edge]

\* checkSnapPossibility, except that the target is the neighbour's position
\* plus the assembled offset without the neighbour's rotation
checkSnapPossibilityUnrotatedTarget(piece1, piece2, piecesInfo, threshold) ==
    LET info1 == ArrGet(piecesInfo, IndexOf(piece1))
        info2 == ArrGet(piecesInfo, IndexOf(piece2))
    IN  IF info1 = Undefined \/ info2 = Undefined THEN Null
        ELSE
        LET edge == SnapEdge(info1.neighbors, IndexOf(piece2))
        IN  IF edge = "none" THEN Null
            ELSE
            LET originalDx == info1.centerX - info2.centerX
                originalDy == info1.centerY - info2.centerY
            IN  IF ~rotationMatches(piece1.rotation, piece2.rotation)
                THEN [canSnap |-> FALSE, distance2 |-> Infinity, edge |-> edge]
                ELSE
                LET currentDx == piece1.x - piece2.x
                    currentDy == piece1.y - piece2.y
                    angle == piece2.rotation
                    rotatedDx == TrigMul(originalDx, Cos(angle)) - TrigMul(originalDy, Sin(angle))
                    rotatedDy == TrigMul(originalDx, Sin(angle)) + TrigMul(originalDy, Cos(angle))
                    diffX == currentDx - rotatedDx
                    diffY == currentDy - rotatedDy
                    distance2 == diffX * diffX + diffY * diffY
                IN  IF distance2 <= threshold * threshold
                    THEN [canSnap |-> TRUE, distance2 |-> distance2, edge |-> edge,
                          targetX |-> piece2.x + originalDx,
                          targetY |-> piece2.y + originalDy,
                          targetRotation |-> piece2.rotation]
                    ELSE [canSnap |-> FALSE, distance2 |-> distance2, edge |-> edge]

checkSnapPossibility(piece1, piece2, piecesInfo, threshold) ==
    LET info1 == ArrGet(piecesInfo, IndexOf(piece1))
        info2 == ArrGet(piecesInfo, IndexOf(piece2))
    IN  IF info1 = Undefined \/ info2 = Undefined THEN Null
        ELSE
        LET edge == SnapEdge(info1.neighbors, IndexOf(piece2))
        IN  IF edge = "none" THEN Null
            ELSE
            LET originalDx == info1.centerX - info2.centerX
                originalDy == info1.centerY - info2.centerY
            IN  IF ~rotationMatches(piece1.rotation, piece2.rotation)
                THEN [canSnap |-> FALSE, distance2 |-> Infinity, edge |-> edge]
                ELSE
                LET currentDx == piece1.x - piece2.x
                    currentDy == piece1.y - piece2.y
                    angle == piece2.rotation
                    rotatedDx == TrigMul(originalDx, Cos(angle)) - TrigMul(originalDy, Sin(angle))
                    rotatedDy == TrigMul(originalDx, Sin(angle)) + TrigMul(originalDy, Cos(angle))
                    diffX == currentDx - rotatedDx
                    diffY == currentDy - rotatedDy
                    distance2 == diffX * diffX + diffY * diffY
                IN  IF distance2 <= threshold * threshold
                    THEN [canSnap |-> TRUE, distance2 |-> distance2, edge |-> edge,
                          targetX |-> piece2.x + rotatedDx,
                          targetY |-> piece2.y + rotatedDy,
                          targetRotation |-> piece2.rotation]
                    ELSE [canSnap |-> FALSE, distance2 |-> distance2, edge |-> edge]

\* Object.entries(neighbors): the edges in insertion order
NeighborEdges == << "left", "right", "bottom", "top" >>

\* Array.prototype.sort((a, b) => a.distance - b.distance): stable insertion
RECURSIVE InsertByDistance(_, _)
InsertByDistance(sorted, e) ==
    IF sorted = << >> THEN << e >>
    ELSE IF e.distance2 < Head(sorted).distance2 THEN << e >> \o sorted
    ELSE << Head(sorted) >> \o InsertByDistance(Tail(sorted), e)
RECURSIVE SortByDistance(_)
SortByDistance(s) ==
    IF s = << >> THEN << >>
    ELSE InsertByDistance(SortByDistance(SubSeq(s, 1, Len(s) - 1)), s[Len(s)])

\* the forEach of findSnapTargets over the entries from position j on
RECURSIVE snapTargetsFrom(_, _, _, _, _, _)
snapTargetsFrom(j, piece, neighbors, transforms, piecesInfo, threshold) ==
    IF j > Len(NeighborEdges) THEN << >>
    ELSE
    LET edge == NeighborEdges[j]
        neighborIndex == neighbors[edge]
        rest == snapTargetsFrom(j + 1, piece, neighbors, transforms, piecesInfo, threshold)
    IN  IF neighborIndex = NoNeighbor THEN rest
        ELSE
        LET neighborTransform == ArrGet(transforms, neighborIndex)
        IN  IF neighborTransform = Undefined THEN rest
            ELSE
            LET result == checkSnapPossibility(piece, neighborTransform, piecesInfo, threshold)
            IN  IF result # Null /\ result.distance2 < Infinity
                THEN << [neighborIndex |-> neighborIndex] @@ result >> \o rest
                ELSE rest

findSnapTargetsUnsorted(pieceIndex, transforms, piecesInfo, threshold) ==
    LET piece == ArrGet(transforms, pieceIndex)
        pieceInfo == ArrGet(piecesInfo, pieceIndex)
    IN  IF piece = Undefined \/ pieceInfo = Undefined THEN << >>
        ELSE snapTargetsFrom(1, piece, pieceInfo.neighbors, transforms, piecesInfo, threshold)

\* the array is returned as a sequence: snapTargets[0] of the code is element 1
findSnapTargets(pieceIndex, transforms, piecesInfo, threshold) ==
    LET piece == ArrGet(transforms, pieceIndex)
        pieceInfo == ArrGet(piecesInfo, pieceIndex)
    IN  IF piece = Undefined \/ pieceInfo = Undefined THEN << >>
        ELSE SortByDistance(snapTargetsFrom(1, piece, pieceInfo.neighbors, transforms, piecesInfo, threshold))

(* ------------------- specification of the partitioner ----------------- *)

\* gParams: the argument of generateAllPieces; gPieces: the array it returned
VARIABLES gParams, gPieces, gPhase
\* sIn: the arguments of one snap query; sOut: the value it returned
VARIABLES sIn, sOut

\* store:    the redux state
\* rendered: the values the last render of ThreeViewer / GameControls read
\*           with useSelector; every callback closes over them
\* refs:     the useRef cells of ThreeViewer; scene counts what sceneRef holds
\*           (cubes, piece meshes, textures of their materials) and the
\*           textures created and neither disposed nor held by a material
\* stale:    the pieceTransforms array of the store is not the array object
\*           the last render read (every reducer write makes a new array)
\* lastEvent, nEvents: the last step taken (with the piece on which the drag
\*             or rotate in progress began and the pointer of the pointer-down
\*             that began it) and the number of user inputs
VARIABLES store, rendered, refs, stale, lastEvent, nEvents

appVars == << store, rendered, refs, stale, lastEvent, nEvents >>

AppIdle ==
    /\ store = << >> /\ rendered = << >> /\ refs = << >>
    /\ stale = FALSE /\ lastEvent = << >> /\ nEvents = 0

geomVars == << gParams, gPieces, gPhase >>
snapVars == << sIn, sOut >>

NoCall == [call |-> "none"]

\* the state of a part of the program that a specification does not exercise
GeomIdle == gParams = [ width |-> 0 ] /\ gPieces = EmptyArr /\ gPhase = "idle"
SnapIdle == sIn = [ threshold |-> 0 ] /\ sOut = NoCall

\* widths and heights for which every sample coordinate is a whole unit
GeomSizes == {3600, 1800}

GeomParams ==
    [ width : GeomSizes, height : GeomSizes, depth : {100},
      gridX : 1..MaxGrid, gridY : 1..MaxGrid, splitMode : SplitModes ]

GeomInit ==
    /\ gParams \in GeomParams
    /\ gPieces = EmptyArr
    /\ gPhase = "params"
    /\ SnapIdle
    /\ AppIdle

GeomGenerate ==
    /\ gPhase = "params"
    /\ gPieces' = generateAllPieces(gParams)
    /\ gPhase' = "generated"
    /\ UNCHANGED << gParams, snapVars, appVars >>

(* ------------------ specification of the snap engine ----------------- *)

SnapGrids == { <<1, 2>>, <<2, 1>>, <<2, 2>> }
SnapParamsOf(g) ==
    [ width |-> 60 * LenScale, height |-> 60 * LenScale, depth |-> 10 * LenScale,
      gridX |-> g[1], gridY |-> g[2], splitMode |-> "straight" ]

\* displacement of the moving piece from the centre it is placed at
SnapOffsetsX == {0, 30, 50, -200}
SnapOffsetsY == {0, 40, 41}
\* rotation of the moving piece and rotation shared by the other pieces
SnapMovingRotations == {0, 5, 9, 10, 157, -157, 314, 626, 1256}
SnapOtherRotations == {0, 5, 157, 626}
\* thresholds: zero, the hard default of 5 mm and the easy 20 mm
SnapThresholds == {0, 5 * LenScale, 20 * LenScale}

\* transforms of the store shape {x, y, z, rotation}; with withIndex the
\* documented shape {x, y, rotation, index} of checkSnapPossibility
SnapTransform(x, y, z, rotation, k, withIndex) ==
    IF withIndex
    THEN [x |-> x, y |-> y, z |-> z, rotation |-> rotation, index |-> k]
    ELSE [x |-> x, y |-> y, z |-> z, rotation |-> rotation]

\* every piece at its assembled centre with rotation otherRot, except piece m,
\* which sits at the centre of piece c displaced by (dx, dy) with rotation movRot
SnapTransforms(pieces, depth, m, c, dx, dy, movRot, otherRot, withIndex) ==
    [k \in DOMAIN pieces |->
        IF k = m
        THEN SnapTransform(pieces[c].centerX + dx, pieces[c].centerY + dy, depth \div 2, movRot, k, withIndex)
        ELSE SnapTransform(pieces[k].centerX, pieces[k].centerY, depth \div 2, otherRot, k, withIndex)]

\* the partitions the queries run against, generated once per grid
SnapPieces == [g \in SnapGrids |-> generateAllPieces(SnapParamsOf(g))]

SnapInit ==
    /\ \E g \in SnapGrids :
         \E m \in DOMAIN SnapPieces[g], c \in DOMAIN SnapPieces[g] :
           \E dx \in SnapOffsetsX, dy \in SnapOffsetsY, rm \in SnapMovingRotations,
              ro \in SnapOtherRotations, th \in SnapThresholds, wi \in BOOLEAN :
                sIn = [ piecesInfo |-> SnapPieces[g],
                        transforms |-> SnapTransforms(SnapPieces[g], SnapParamsOf(g).depth,
                                                      m, c, dx, dy, rm, ro, wi),
                        pieceIndex |-> m,
                        threshold |-> th ]
    /\ sOut = NoCall
    /\ GeomIdle
    /\ AppIdle

\* findSnapTargets(pieceIndex, transforms, piecesInfo, threshold)
SnapFind ==
    /\ sOut = NoCall
    /\ sOut' = [ call |-> "findSnapTargets",
                 targets |-> findSnapTargets(sIn.pieceIndex, sIn.transforms, sIn.piecesInfo, sIn.threshold) ]
    /\ UNCHANGED << sIn, geomVars, appVars >>

\* checkSnapPossibility(transforms[pieceIndex], transforms[q], piecesInfo, threshold)
SnapCheck(q) ==
    /\ sOut = NoCall
    /\ q # sIn.pieceIndex
    /\ sOut' = [ call |-> "checkSnapPossibility", neighbor |-> q,
                 result |-> checkSnapPossibility(sIn.transforms[sIn.pieceIndex], sIn.transforms[q],
                                                 sIn.piecesInfo, sIn.threshold) ]
    /\ UNCHANGED << sIn, geomVars, appVars >>

SnapNext == SnapFind \/ \E q \in DOMAIN sIn.transforms : SnapCheck(q)

(* ------------------------------ pose store ---------------------------- *)

\* bound on the number of user inputs (pointer events, buttons, panel changes)
MaxEvents == 5

NoImage == "null"

initialState ==
    [ selectedImageId |-> NoImage,
      puzzleParams |-> [ width |-> 100 * LenScale, height |-> 100 * LenScale, depth |-> 10 * LenScale,
                         gridX |-> 2, gridY |-> 2, splitMode |-> "straight" ],
      puzzleGameMode |-> FALSE,
      puzzleScattered |-> FALSE,
      difficultyMode |-> "easy",
      snapDistance |-> 20 * LenScale,
      hardSnapDistance |-> 5 * LenScale,
      selectedPieceIndex |-> -1,
      pieceTransforms |-> EmptyArr ]

\* reducers of puzzleSlice
selectImage(state, payload) == [state EXCEPT !.selectedImageId = payload]

setParam(state, key, value) == [state EXCEPT !.puzzleParams[key] = value]

\* setSnapDistance, except that the active distance follows the slider in
\* every difficulty mode
setSnapDistanceAnyMode(state, payload) ==
    [state EXCEPT !.hardSnapDistance = payload, !.snapDistance = payload]

setDifficultyMode(state, payload) ==
    [state EXCEPT !.difficultyMode = payload,
                  !.snapDistance = IF payload = "easy" THEN 20 * LenScale
                                   ELSE state.hardSnapDistance]

setSnapDistance(state, payload) ==
    [state EXCEPT !.hardSnapDistance = payload,
                  !.snapDistance = IF state.difficultyMode = "hard" THEN payload ELSE @]

resetState(state) == initialState

setPuzzleGameMode(state, payload) ==
    IF ~payload
    THEN [state EXCEPT !.puzzleGameMode = payload, !.puzzleScattered = FALSE,
                       !.selectedPieceIndex = -1, !.pieceTransforms = EmptyArr]
    ELSE [state EXCEPT !.puzzleGameMode = payload]

setPuzzleScattered(state, payload) == [state EXCEPT !.puzzleScattered = payload]

setSelectedPieceIndex(state, payload) == [state EXCEPT !.selectedPieceIndex = payload]

setPieceTransforms(state, payload) == [state EXCEPT !.pieceTransforms = payload]

\* { ...state.pieceTransforms[index], ...transform }
MergeTransform(old, transform) ==
    [f \in DOMAIN old |-> IF f \in DOMAIN transform THEN transform[f] ELSE old[f]]

\* the reducer without its guard: { ...undefined, ...transform } is stored
updatePieceTransformUnguarded(state, index, transform) ==
    IF index \in DOMAIN state.pieceTransforms
    THEN [state EXCEPT !.pieceTransforms[index] = MergeTransform(@, transform)]
    ELSE [state EXCEPT !.pieceTransforms = (index :> transform) @@ @]

updatePieceTransform(state, index, transform) ==
    IF index \in DOMAIN state.pieceTransforms
    THEN [state EXCEPT !.pieceTransforms[index] = MergeTransform(@, transform)]
    ELSE state

(* ------------------------------- viewer ------------------------------- *)

\* the values a render reads from the store
Selected(state) ==
    [ selectedImage |-> state.selectedImageId,
      params |-> state.puzzleParams,
      gameMode |-> state.puzzleGameMode,
      scattered |-> state.puzzleScattered,
      snapDistance |-> state.snapDistance,
      selectedPieceIndex |-> state.selectedPieceIndex,
      pieceTransforms |-> state.pieceTransforms ]

\* the mutable world a callback acts on
World == [ store |-> store, refs |-> refs, stale |-> stale ]

\* dispatch of the two reducers that replace the pieceTransforms array
dispatchSetPieceTransforms(w, payload) ==
    [w EXCEPT !.store = setPieceTransforms(@, payload), !.stale = TRUE]

dispatchUpdatePieceTransform(w, index, transform) ==
    [w EXCEPT !.store = updatePieceTransform(@, index, transform),
              !.stale = @ \/ index \in DOMAIN w.store.pieceTransforms]

\* bound on the count of textures that nothing refers to any more
MaxOrphans == 2

\* the number of entries of a mesh array whose top material has a texture
MapsOf(meshes) == Cardinality({ k \in DOMAIN meshes : meshes[k].map })

\* removal and disposal of the cube, its geometry, materials and texture
disposeCube(w) ==
    IF w.refs.cube
    THEN [w EXCEPT !.refs.cube = FALSE,
                   !.refs.cubeMap = FALSE,
                   !.refs.scene.cubes = @ - 1,
                   !.refs.scene.maps = IF w.refs.cubeMap THEN @ - 1 ELSE @]
    ELSE w

\* the meshes of pieceMeshesRef leave the scene and are disposed with the
\* texture clones of their materials; the texture they were cloned from is
\* held by no ref and is not disposed
clearPuzzlePieces(w) ==
    [w EXCEPT !.refs.pieceMeshes = EmptyArr,
              !.refs.rotationHelper = FALSE,
              !.refs.baseTexture = FALSE,
              !.refs.scene.pieces = @ - ArrLen(w.refs.pieceMeshes),
              !.refs.scene.maps = @ - MapsOf(w.refs.pieceMeshes),
              !.refs.scene.orphans =
                  IF w.refs.baseTexture /\ @ < MaxOrphans THEN @ + 1 ELSE @]

createCube(w, c) ==
    [disposeCube(w) EXCEPT !.refs.cube = TRUE,
                           !.refs.cubeMap = c.selectedImage # NoImage,
                           !.refs.scene.cubes = @ + 1,
                           !.refs.scene.maps = IF c.selectedImage # NoImage THEN @ + 1 ELSE @]

assembledTransformsSwapped(pieces, params) ==
    [k \in DOMAIN pieces |->
        [ x |-> pieces[k].centerY, y |-> pieces[k].centerX, z |-> params.depth \div 2, rotation |-> 0 ]]

\* pieces.map(piece => ({ x: piece.centerX, y: piece.centerY, z: params.depth / 2, rotation: 0 }))
assembledTransforms(pieces, params) ==
    [k \in DOMAIN pieces |->
        [ x |-> pieces[k].centerX, y |-> pieces[k].centerY, z |-> params.depth \div 2, rotation |-> 0 ]]

\* generateAllPieces(params) without the outline of each piece: the outline
\* is handed to the mesh constructor, the callbacks read the other fields
piecesInfoOf(params) ==
    [index \in 0 .. (params.gridX * params.gridY - 1) |->
        LET col == index % params.gridX
            row == index \div params.gridX
            frame == PieceFrame(col, row, params)
        IN  [ index |-> index, col |-> col, row |-> row,
              centerX |-> frame.centerX, centerY |-> frame.centerY,
              neighbors |-> pieceNeighbors(col, row, params.gridX, params.gridY) ]]

createPuzzlePieces(w, c) ==
    LET pieces == piecesInfoOf(c.params)
        w1 == clearPuzzlePieces(w)
        textured == c.selectedImage # NoImage
        w2 == [w1 EXCEPT !.refs.piecesInfo = pieces,
                         !.refs.baseTexture = textured,
                         !.refs.pieceMeshes =
                             [k \in DOMAIN pieces |-> [pieceIndex |-> k, map |-> textured]],
                         !.refs.scene.pieces = @ + ArrLen(pieces),
                         !.refs.scene.maps = IF textured THEN @ + ArrLen(pieces) ELSE @]
    IN  IF ArrLen(c.pieceTransforms) = 0
        THEN dispatchSetPieceTransforms(w2, assembledTransforms(pieces, c.params))
        ELSE w2

updateSelectionHighlight(w, c) ==
    [w EXCEPT !.refs.rotationHelper =
        c.selectedPieceIndex >= 0 /\ c.selectedPieceIndex \in DOMAIN w.refs.pieceMeshes]

\* useEffect "game mode switch"
gameModeEffect(w, c) ==
    IF c.gameMode
    THEN createPuzzlePieces(disposeCube(w), c)
    ELSE createCube(clearPuzzlePieces(w), c)

\* useEffect "update when parameters change"
paramsEffect(w, c) ==
    IF c.gameMode
    THEN createPuzzlePieces(dispatchSetPieceTransforms(w, EmptyArr), c)
    ELSE createCube(w, c)

\* useEffect "update selection highlight"
selectionEffect(w, c) == IF c.gameMode THEN updateSelectionHighlight(w, c) ELSE w

\* cos of the multiples of 15 degrees, times TrigScale; sin(a) = cos(a - 90)
Cos15Table ==
    << 1000, 966, 866, 707, 500, 259, 0, -259, -500, -707, -866, -966,
       -1000, -966, -866, -707, -500, -259, 0, 259, 500, 707, 866, 966 >>
Cos15(k) == Cos15Table[(k % 24) + 1]
Sin15(k) == Cos15(k + 18)

\* the three Math.random() draws handleScatter makes for one piece:
\* jitter:    random * 0.5 rad, in steps of 15 degrees (0 or pi/12)
\* radiusPct: (0.5 + random * 0.5) in percent
\* rotation:  random * 2 pi
ScatterDraws ==
    { [ jitter |-> 0, radiusPct |-> 50, rotation |-> 0 ],
      [ jitter |-> 1, radiusPct |-> 75, rotation |-> 157 ] }

\* handleScatter, except that the radius is random * 0.5 of the scatter
\* radius, without the 0.5 it starts from
handleScatterNoMinRadius(w, c, draws) ==
    IF ArrLen(w.refs.piecesInfo) = 0 THEN w
    ELSE
    LET n == ArrLen(w.refs.piecesInfo)
        scatterRadius == (Max2(c.params.width, c.params.height) * 3) \div 2
        newTransforms ==
            [index \in DOMAIN w.refs.piecesInfo |->
                LET angle == (index * 24) \div n + draws[index].jitter
                    radius == (scatterRadius * (draws[index].radiusPct - 50)) \div 100
                IN  [ x |-> RoundDiv(Cos15(angle) * radius, TrigScale),
                      y |-> RoundDiv(Sin15(angle) * radius, TrigScale),
                      z |-> c.params.depth \div 2,
                      rotation |-> draws[index].rotation ]]
        w1 == dispatchSetPieceTransforms(w, newTransforms)
    IN  [w1 EXCEPT !.store = setSelectedPieceIndex(setPuzzleScattered(@, TRUE), -1)]

handleScatter(w, c, draws) ==
    IF ArrLen(w.refs.piecesInfo) = 0 THEN w
    ELSE
    LET n == ArrLen(w.refs.piecesInfo)
        scatterRadius == (Max2(c.params.width, c.params.height) * 3) \div 2
        newTransforms ==
            [index \in DOMAIN w.refs.piecesInfo |->
                LET angle == (index * 24) \div n + draws[index].jitter
                    radius == (scatterRadius * draws[index].radiusPct) \div 100
                IN  [ x |-> RoundDiv(Cos15(angle) * radius, TrigScale),
                      y |-> RoundDiv(Sin15(angle) * radius, TrigScale),
                      z |-> c.params.depth \div 2,
                      rotation |-> draws[index].rotation ]]
        w1 == dispatchSetPieceTransforms(w, newTransforms)
    IN  [w1 EXCEPT !.store = setSelectedPieceIndex(setPuzzleScattered(@, TRUE), -1)]

handleAssemble(w, c) ==
    IF ArrLen(w.refs.piecesInfo) = 0 THEN w
    ELSE
    LET w1 == dispatchSetPieceTransforms(w, assembledTransforms(w.refs.piecesInfo, c.params))
    IN  [w1 EXCEPT !.store = setSelectedPieceIndex(setPuzzleScattered(@, FALSE), -1)]

NotDragging == "false"
NoHit == -1

\* handleMouseDown, except that starting a rotate leaves the camera control on
handleMouseDownKeepsCamera(w, c, event) ==
    IF ~c.gameMode THEN w
    ELSE IF w.refs.rotationHelper /\ event.hitHelper /\ c.selectedPieceIndex >= 0
    THEN [w EXCEPT !.refs.isDragging = "rotate",
                   !.refs.dragOffset =
                       [ x |-> event.clientX, y |-> event.clientY,
                         z |-> IF c.selectedPieceIndex \in DOMAIN c.pieceTransforms
                               THEN c.pieceTransforms[c.selectedPieceIndex].rotation ELSE 0 ]]
    ELSE IF event.hitPiece # NoHit
    THEN LET pieceIndex == w.refs.pieceMeshes[event.hitPiece].pieceIndex
             w1 == [w EXCEPT !.store = setSelectedPieceIndex(@, pieceIndex),
                             !.refs.isDragging = "drag",
                             !.refs.controlsEnabled = FALSE]
         IN  IF pieceIndex \in DOMAIN c.pieceTransforms
             THEN [w1 EXCEPT !.refs.dragOffset =
                       [ x |-> c.pieceTransforms[pieceIndex].x - event.x,
                         y |-> c.pieceTransforms[pieceIndex].y - event.y,
                         z |-> 0 ]]
             ELSE w1
    ELSE [w EXCEPT !.store = setSelectedPieceIndex(@, -1)]

\* handleMouseDown, except that a pointer-down that hits nothing leaves the
\* selection as it is
handleMouseDownMissKeepsSelection(w, c, event) ==
    IF ~c.gameMode THEN w
    ELSE IF w.refs.rotationHelper /\ event.hitHelper /\ c.selectedPieceIndex >= 0
    THEN [w EXCEPT !.refs.isDragging = "rotate",
                   !.refs.controlsEnabled = FALSE,
                   !.refs.dragOffset =
                       [ x |-> event.clientX, y |-> event.clientY,
                         z |-> IF c.selectedPieceIndex \in DOMAIN c.pieceTransforms
                               THEN c.pieceTransforms[c.selectedPieceIndex].rotation ELSE 0 ]]
    ELSE IF event.hitPiece # NoHit
    THEN LET pieceIndex == w.refs.pieceMeshes[event.hitPiece].pieceIndex
             w1 == [w EXCEPT !.store = setSelectedPieceIndex(@, pieceIndex),
                             !.refs.isDragging = "drag",
                             !.refs.controlsEnabled = FALSE]
         IN  IF pieceIndex \in DOMAIN c.pieceTransforms
             THEN [w1 EXCEPT !.refs.dragOffset =
                       [ x |-> c.pieceTransforms[pieceIndex].x - event.x,
                         y |-> c.pieceTransforms[pieceIndex].y - event.y,
                         z |-> 0 ]]
             ELSE w1
    ELSE w

\* event: clientX, clientY of the pointer, the point (x, y) where its ray
\* meets the drag plane, whether the ray meets the rotation ring, and the
\* position in pieceMeshesRef of the first mesh it meets (NoHit: none)
handleMouseDown(w, c, event) ==
    IF ~c.gameMode THEN w
    ELSE IF w.refs.rotationHelper /\ event.hitHelper /\ c.selectedPieceIndex >= 0
    THEN [w EXCEPT !.refs.isDragging = "rotate",
                   !.refs.controlsEnabled = FALSE,
                   !.refs.dragOffset =
                       [ x |-> event.clientX, y |-> event.clientY,
                         z |-> IF c.selectedPieceIndex \in DOMAIN c.pieceTransforms
                               THEN c.pieceTransforms[c.selectedPieceIndex].rotation ELSE 0 ]]
    ELSE IF event.hitPiece # NoHit
    THEN LET pieceIndex == w.refs.pieceMeshes[event.hitPiece].pieceIndex
             w1 == [w EXCEPT !.store = setSelectedPieceIndex(@, pieceIndex),
                             !.refs.isDragging = "drag",
                             !.refs.controlsEnabled = FALSE]
         IN  IF pieceIndex \in DOMAIN c.pieceTransforms
             THEN [w1 EXCEPT !.refs.dragOffset =
                       [ x |-> c.pieceTransforms[pieceIndex].x - event.x,
                         y |-> c.pieceTransforms[pieceIndex].y - event.y,
                         z |-> 0 ]]
             ELSE w1
    ELSE [w EXCEPT !.store = setSelectedPieceIndex(@, -1)]

handleMouseMove(w, c, event) ==
    IF w.refs.isDragging = NotDragging THEN w
    ELSE IF w.refs.isDragging = "rotate" /\ c.selectedPieceIndex >= 0
    THEN LET deltaX == event.clientX - w.refs.dragOffset.x
             newRotation == w.refs.dragOffset.z + deltaX
         IN  dispatchUpdatePieceTransform(w, c.selectedPieceIndex, [ rotation |-> newRotation ])
    ELSE IF w.refs.isDragging = "drag" /\ c.selectedPieceIndex >= 0
    THEN IF c.selectedPieceIndex \in DOMAIN c.pieceTransforms
         THEN dispatchUpdatePieceTransform(w, c.selectedPieceIndex,
                  [ x |-> event.x + w.refs.dragOffset.x, y |-> event.y + w.refs.dragOffset.y ])
         ELSE w
    ELSE w

\* handleMouseUp, except that ending a rotate puts the rotation the rotate
\* started from back into the store
handleMouseUpRevertsRotation(w, c) ==
    IF w.refs.isDragging = NotDragging THEN w
    ELSE
    LET w1 == IF w.refs.isDragging = "rotate" /\ c.selectedPieceIndex >= 0
              THEN dispatchUpdatePieceTransform(w, c.selectedPieceIndex,
                       [ rotation |-> w.refs.dragOffset.z ])
              ELSE w
    IN  [w1 EXCEPT !.refs.isDragging = NotDragging, !.refs.controlsEnabled = TRUE]

handleMouseUp(w, c) ==
    IF w.refs.isDragging = NotDragging THEN w
    ELSE
    LET snapTargets ==
            IF w.refs.isDragging = "drag" /\ c.selectedPieceIndex >= 0
            THEN findSnapTargets(c.selectedPieceIndex, c.pieceTransforms, w.refs.piecesInfo, c.snapDistance)
            ELSE << >>
        w1 == IF Len(snapTargets) > 0 /\ snapTargets[1].canSnap
              THEN dispatchUpdatePieceTransform(w, c.selectedPieceIndex,
                       [ x |-> snapTargets[1].targetX, y |-> snapTargets[1].targetY,
                         rotation |-> snapTargets[1].targetRotation ])
              ELSE w
    IN  [w1 EXCEPT !.refs.isDragging = NotDragging, !.refs.controlsEnabled = TRUE]

(* --------------------- specification of the viewer -------------------- *)

\* the grids of GRID_OPTIONS the panel is switched between
PanelGrids == { << 2, 2 >>, << 2, 3 >> }
ImageIds == { "img1" }
\* no pointer-down has begun a drag or rotate
NoPick == [ clientX |-> -1, clientY |-> -1, x |-> 0, y |-> 0 ]

Pointers ==
    { [ clientX |-> 400, clientY |-> 300, x |-> 0, y |-> 0 ],
      [ clientX |-> 405, clientY |-> 300, x |-> 3 * LenScale, y |-> 4 * LenScale ] }

\* the state after the first render and its effects: normal mode, the cube
Init ==
    /\ store = initialState
    /\ rendered = Selected(initialState)
    /\ refs = [ piecesInfo |-> EmptyArr, pieceMeshes |-> EmptyArr, cube |-> TRUE,
                cubeMap |-> FALSE, baseTexture |-> FALSE,
                scene |-> [ cubes |-> 1, pieces |-> 0, maps |-> 0, orphans |-> 0 ],
                rotationHelper |-> FALSE, isDragging |-> NotDragging,
                controlsEnabled |-> TRUE, dragOffset |-> [ x |-> 0, y |-> 0, z |-> 0 ] ]
    /\ stale = FALSE
    /\ lastEvent = [ name |-> "mount", dragging |-> NotDragging, began |-> NoHit,
                     pick |-> NoPick ]
    /\ nEvents = 0
    /\ GeomIdle
    /\ SnapIdle

\* a user input was handled and left the world w; began is the piece on
\* which the drag or rotate now in progress began, pick the pointer of the
\* pointer-down that began it
HandledOn(world, name, began, pick) ==
    /\ \E w \in { world } :
        /\ store' = w.store
        /\ refs' = w.refs
        /\ stale' = w.stale
        /\ lastEvent' = [ name |-> name, dragging |-> refs.isDragging,
                          began |-> IF w.refs.isDragging = NotDragging THEN NoHit ELSE began,
                          pick |-> IF w.refs.isDragging = NotDragging THEN NoPick ELSE pick ]
    /\ nEvents' = nEvents + 1
    /\ UNCHANGED << rendered, geomVars, snapVars >>

Handled(world, name) == HandledOn(world, name, lastEvent.began, lastEvent.pick)

\* GameControls: handleToggleGameMode
ToggleGameMode ==
    /\ nEvents < MaxEvents
    /\ LET payload == ~rendered.gameMode
       IN  Handled([World EXCEPT !.store = setPuzzleGameMode(@, payload),
                                 !.stale = IF payload THEN @ ELSE TRUE], "toggleGameMode")

\* ParameterPanel: handleGridChange
ChangeGrid ==
    /\ nEvents < MaxEvents
    /\ \E g \in PanelGrids :
        /\ g # << rendered.params.gridX, rendered.params.gridY >>
        /\ Handled([World EXCEPT !.store = setParam(setParam(@, "gridX", g[1]), "gridY", g[2])],
                   "changeGrid")

\* ImageManager: handleSelectImage / handleDeleteImage of the selected image
SelectImage ==
    /\ nEvents < MaxEvents
    /\ \E id \in ImageIds \cup { NoImage } :
        /\ id # store.selectedImageId
        /\ Handled([World EXCEPT !.store = selectImage(@, id)], "selectImage")

\* GameControls: the scatter button, shown in game mode, disabled once scattered
Scatter ==
    /\ nEvents < MaxEvents
    /\ rendered.gameMode /\ ~rendered.scattered
    /\ \E draws \in [DOMAIN refs.piecesInfo -> ScatterDraws] :
        Handled(handleScatter(World, rendered, draws), "scatter")

\* GameControls: the assemble button, enabled once scattered
Assemble ==
    /\ nEvents < MaxEvents
    /\ rendered.gameMode /\ rendered.scattered
    /\ Handled(handleAssemble(World, rendered), "assemble")

MouseDown ==
    /\ nEvents < MaxEvents
    /\ rendered.gameMode
    /\ \E p \in Pointers, hitHelper \in BOOLEAN, hitPiece \in DOMAIN refs.pieceMeshes \cup { NoHit } :
        /\ hitHelper => refs.rotationHelper
        /\ HandledOn(handleMouseDown(World, rendered,
                         p @@ [ hitHelper |-> hitHelper, hitPiece |-> hitPiece ]), "mousedown",
                     IF hitHelper /\ rendered.selectedPieceIndex >= 0
                     THEN rendered.selectedPieceIndex
                     ELSE IF hitPiece # NoHit THEN refs.pieceMeshes[hitPiece].pieceIndex
                     ELSE lastEvent.began,
                     IF (hitHelper /\ rendered.selectedPieceIndex >= 0) \/ hitPiece # NoHit
                     THEN p ELSE lastEvent.pick)

MouseMove ==
    /\ nEvents < MaxEvents
    /\ refs.isDragging # NotDragging
    /\ \E p \in Pointers : Handled(handleMouseMove(World, rendered, p), "mousemove")

MouseUp ==
    /\ nEvents < MaxEvents
    /\ refs.isDragging # NotDragging
    /\ Handled(handleMouseUp(World, rendered), "mouseup")

\* MouseLeave, except that no handler is bound to 'mouseleave'
MouseLeaveUnbound ==
    /\ nEvents < MaxEvents
    /\ refs.isDragging # NotDragging
    /\ Handled(World, "mouseleave")

\* 'mouseleave' is bound to handleMouseUp
MouseLeave ==
    /\ nEvents < MaxEvents
    /\ refs.isDragging # NotDragging
    /\ Handled(handleMouseUp(World, rendered), "mouseleave")

\* one commit of React: the render reads the store, then the effects whose
\* dependencies changed run in the order they are declared
Render ==
    \E c \in { Selected(store) } :
    LET changed(f) == c[f] # rendered[f]
        createCubeChanged == changed("params") \/ changed("selectedImage")
        createPuzzlePiecesChanged == createCubeChanged \/ stale
        updateSelectionHighlightChanged == changed("selectedPieceIndex") \/ changed("params")
        runGameMode == changed("gameMode") \/ createCubeChanged \/ createPuzzlePiecesChanged
        runParams == changed("params") \/ changed("selectedImage") \/ changed("gameMode")
                        \/ createCubeChanged \/ createPuzzlePiecesChanged
        runSelection == changed("selectedPieceIndex") \/ changed("gameMode")
                        \/ updateSelectionHighlightChanged
    IN  /\ c # rendered \/ stale
        /\ rendered' = c
        /\ \E w0 \in { [World EXCEPT !.stale = FALSE] } :
           \E w1 \in { IF runGameMode THEN gameModeEffect(w0, c) ELSE w0 } :
           \E w2 \in { IF runParams THEN paramsEffect(w1, c) ELSE w1 } :
           \E w3 \in { IF runSelection THEN selectionEffect(w2, c) ELSE w2 } :
               /\ store' = w3.store
               /\ refs' = w3.refs
               /\ stale' = w3.stale
        /\ lastEvent' = [ name |-> "render", dragging |-> refs.isDragging,
                          began |-> lastEvent.began, pick |-> lastEvent.pick ]
        /\ UNCHANGED << nEvents, geomVars, snapVars >>

Next ==
    \/ ToggleGameMode
    \/ ChangeGrid
    \/ SelectImage
    \/ Scatter
    \/ Assemble
    \/ MouseDown
    \/ MouseMove
    \/ MouseUp
    \/ MouseLeave
    \/ Render

(* ------------------------------ all state ----------------------------- *)

vars == << geomVars, snapVars, appVars >>

GeomNext == GeomGenerate

SpecGeom == GeomInit /\ [][GeomNext]_vars

SpecSnap == SnapInit /\ [][SnapNext]_vars

Spec == Init /\ [][Next]_vars

(* ---------------------- claims on the partitioner --------------------- *)

Reverse(s) == [j \in 1..Len(s) |-> s[Len(s) + 1 - j]]

\* the ring of a generated piece, back in global coordinates
RingGlobal(p) == [j \in 1..Len(p.geometry) |-> << p.geometry[j][1] + p.centerX, p.geometry[j][2] + p.centerY >>]

\* number of ring points contributed by each segment of piece p
NBottom(p) == IF p.row = 0 THEN 2 ELSE Segments + 1
NRight(p) == IF p.col = gParams.gridX - 1 THEN 1 ELSE Segments
NTop(p) == IF p.row = gParams.gridY - 1 THEN 1 ELSE Segments

\* the part of p's ring that runs along one side, both corner points included
BottomEdgeOf(p) == SubSeq(RingGlobal(p), 1, NBottom(p))
RightEdgeOf(p) == SubSeq(RingGlobal(p), NBottom(p), NBottom(p) + NRight(p))
TopEdgeOf(p) == SubSeq(RingGlobal(p), NBottom(p) + NRight(p), NBottom(p) + NRight(p) + NTop(p))
LeftEdgeOf(p) ==
    SubSeq(RingGlobal(p), NBottom(p) + NRight(p) + NTop(p), Len(RingGlobal(p))) \o << RingGlobal(p)[1] >>

Generated == gPhase = "generated"

\* C1: the neighbors produced by generateAllPieces are symmetric: piece i
\* names j on its right iff j names i on its left, and i names j on its top
\* iff j names i on its bottom.
C1_NeighborsSymmetric ==
    Generated =>
        \A i \in DOMAIN gPieces : \A j \in DOMAIN gPieces :
            /\ (gPieces[i].neighbors.right = j) <=> (gPieces[j].neighbors.left = i)
            /\ (gPieces[i].neighbors.top = j) <=> (gPieces[j].neighbors.bottom = i)

C1_Witness ==
    /\ Generated
    /\ gParams.gridX = 3 /\ gParams.gridY = 2
    /\ gPieces[1].neighbors.right = 2 /\ gPieces[2].neighbors.left = 1
    /\ gPieces[1].neighbors.top = 4 /\ gPieces[4].neighbors.bottom = 1

\* C2: generateAllPieces returns gridX*gridY pieces in row-major order: the
\* piece at position k has index k = row*gridX + col, and each neighbors
\* entry is the index of the adjacent cell in that direction, or -1 exactly
\* when the cell lies on that border (2x2: piece 0 has left -1, right 1,
\* bottom -1, top 2).
C2_RowMajorAndNeighbors ==
    Generated =>
        /\ DOMAIN gPieces = 0..(gParams.gridX * gParams.gridY - 1)
        /\ \A k \in DOMAIN gPieces :
              LET p == gPieces[k]
                  n == p.neighbors
              IN  /\ p.index = k
                  /\ p.col \in 0..(gParams.gridX - 1)
                  /\ p.row \in 0..(gParams.gridY - 1)
                  /\ k = p.row * gParams.gridX + p.col
                  /\ (n.left = NoNeighbor) <=> (p.col = 0)
                  /\ (n.right = NoNeighbor) <=> (p.col = gParams.gridX - 1)
                  /\ (n.bottom = NoNeighbor) <=> (p.row = 0)
                  /\ (n.top = NoNeighbor) <=> (p.row = gParams.gridY - 1)
                  /\ n.left # NoNeighbor =>
                        /\ n.left \in DOMAIN gPieces
                        /\ gPieces[n.left].col = p.col - 1 /\ gPieces[n.left].row = p.row
                  /\ n.right # NoNeighbor =>
                        /\ n.right \in DOMAIN gPieces
                        /\ gPieces[n.right].col = p.col + 1 /\ gPieces[n.right].row = p.row
                  /\ n.bottom # NoNeighbor =>
                        /\ n.bottom \in DOMAIN gPieces
                        /\ gPieces[n.bottom].col = p.col /\ gPieces[n.bottom].row = p.row - 1
                  /\ n.top # NoNeighbor =>
                        /\ n.top \in DOMAIN gPieces
                        /\ gPieces[n.top].col = p.col /\ gPieces[n.top].row = p.row + 1
        /\ (gParams.gridX = 2 /\ gParams.gridY = 2) =>
              gPieces[0].neighbors = [left |-> -1, right |-> 1, bottom |-> -1, top |-> 2]

C2_Witness ==
    /\ Generated
    /\ gParams.gridX = 2 /\ gParams.gridY = 2
    /\ ArrLen(gPieces) = 4
    /\ gPieces[3].col = 1 /\ gPieces[3].row = 1 /\ gPieces[3].neighbors.left = 2

\* pairs <<a, b>> of generated pieces with b the right / the top neighbour of a
RightPairs == { pr \in (DOMAIN gPieces) \X (DOMAIN gPieces) : gPieces[pr[1]].neighbors.right = pr[2] }
TopPairs == { pr \in (DOMAIN gPieces) \X (DOMAIN gPieces) : gPieces[pr[1]].neighbors.top = pr[2] }

SharedEdgesIdentical ==
    /\ \A pr \in RightPairs : RightEdgeOf(gPieces[pr[1]]) = Reverse(LeftEdgeOf(gPieces[pr[2]]))
    /\ \A pr \in TopPairs : TopEdgeOf(gPieces[pr[1]]) = Reverse(BottomEdgeOf(gPieces[pr[2]]))

\* C8: for every cut style and every pair of grid-adjacent cells, the point
\* sequence in cell A's ring along the common edge equals, reversed and with
\* both corner points, the sequence in cell B's ring along that edge.
C8_SharedEdgeIdenticalAllStyles == Generated => SharedEdgesIdentical

\* C9: for splitMode = straight the edge of a piece and the edge of its
\* neighbour on the same grid line have the same 31 sample points once one
\* is reversed, and every point lies on the grid line (zero transverse offset).
C9_StraightEdgesCoincide ==
    (Generated /\ gParams.splitMode = "straight") =>
        /\ SharedEdgesIdentical
        /\ \A pr \in RightPairs :
              LET a == gPieces[pr[1]]
                  f == PieceFrame(a.col, a.row, gParams)
                  e == RightEdgeOf(a)
              IN  /\ Len(e) = Segments + 1
                  /\ \A j \in 1..Len(e) : e[j][1] = f.xRight
                  /\ e = generateVerticalEdge(f.xRight, f.yBottom, f.yTop, "straight", f.amplitude)
                  /\ e = Reverse(generateVerticalEdge(f.xRight, f.yTop, f.yBottom, "straight", f.amplitude))
        /\ \A pr \in TopPairs :
              LET a == gPieces[pr[1]]
                  f == PieceFrame(a.col, a.row, gParams)
                  e == TopEdgeOf(a)
              IN  /\ Len(e) = Segments + 1
                  /\ \A j \in 1..Len(e) : e[j][2] = f.yTop
                  /\ e = generateHorizontalEdge(f.xRight, f.xLeft, f.yTop, "straight", f.amplitude)
                  /\ e = Reverse(generateHorizontalEdge(f.xLeft, f.xRight, f.yTop, "straight", f.amplitude))

C9_Witness ==
    /\ Generated
    /\ gParams.splitMode = "straight"
    /\ gParams.gridX = 2 /\ gParams.gridY = 2
    /\ RightPairs # {} /\ TopPairs # {}
    /\ Len(RightEdgeOf(gPieces[0])) = Segments + 1

(* ---------------------- claims on the snap engine --------------------- *)

SnapMoving == sIn.transforms[sIn.pieceIndex]
SnapMovingInfo == sIn.piecesInfo[sIn.pieceIndex]
SnapHasIndex == "index" \in DOMAIN SnapMoving
SnapAdjacent(q) ==
    q \in { SnapMovingInfo.neighbors.left, SnapMovingInfo.neighbors.right,
            SnapMovingInfo.neighbors.bottom, SnapMovingInfo.neighbors.top }
SnapNeighborsOfMoving == { q \in DOMAIN sIn.piecesInfo : SnapAdjacent(q) }

\* every transform of the query is the assembled pose, as the store holds it
SnapAllAssembled ==
    \A k \in DOMAIN sIn.transforms :
        sIn.transforms[k] = [ x |-> sIn.piecesInfo[k].centerX, y |-> sIn.piecesInfo[k].centerY,
                              z |-> (10 * LenScale) \div 2, rotation |-> 0 ]

\* C4: with every PieceTransform of the store at the assembled pose,
\* findSnapTargets returns for each non-border neighbour of piece i a
\* candidate with canSnap = true and distance 0, for any threshold >= 0.
C4_AssembledSnapsAtZero ==
    (sOut.call = "findSnapTargets" /\ SnapAllAssembled) =>
        \A q \in SnapNeighborsOfMoving :
            \E j \in 1..Len(sOut.targets) :
                /\ sOut.targets[j].neighborIndex = q
                /\ sOut.targets[j].canSnap
                /\ sOut.targets[j].distance2 = 0

\* a quarter turn, pi/2, in angle units
QuarterTurn == TwoPi \div 4

SnapQuarterApart(q) == Abs(SnapMoving.rotation - sIn.transforms[q].rotation) = QuarterTurn

\* C6: for two grid-adjacent pieces whose rotations differ by pi/2,
\* checkSnapPossibility never returns canSnap = true, whatever the positions
\* and the threshold; given pieces that carry their index it returns
\* canSnap = false with infinite distance; findSnapTargets omits the neighbour.
C6_QuarterTurnNeverSnaps ==
    /\ (sOut.call = "checkSnapPossibility" /\ SnapAdjacent(sOut.neighbor) /\ SnapQuarterApart(sOut.neighbor)) =>
          /\ sOut.result # Null => ~sOut.result.canSnap
          /\ SnapHasIndex =>
                /\ sOut.result # Null
                /\ sOut.result.canSnap = FALSE
                /\ sOut.result.distance2 = Infinity
    /\ sOut.call = "findSnapTargets" =>
          \A j \in 1..Len(sOut.targets) :
              ~ SnapQuarterApart(sOut.targets[j].neighborIndex)

C6_Witness ==
    /\ sOut.call = "checkSnapPossibility"
    /\ SnapHasIndex
    /\ SnapAdjacent(sOut.neighbor)
    /\ SnapQuarterApart(sOut.neighbor)
    /\ SnapMoving.x = SnapMovingInfo.centerX /\ SnapMoving.y = SnapMovingInfo.centerY
    /\ sIn.threshold = 20 * LenScale
    /\ sOut.result.canSnap = FALSE /\ sOut.result.distance2 = Infinity

\* the assembled offset moving-minus-neighbour, rotated by the neighbour's rotation
SnapExpectedOffset(q) ==
    LET dx0 == SnapMovingInfo.centerX - sIn.piecesInfo[q].centerX
        dy0 == SnapMovingInfo.centerY - sIn.piecesInfo[q].centerY
        a == sIn.transforms[q].rotation
    IN  << TrigMul(dx0, Cos(a)) - TrigMul(dy0, Sin(a)), TrigMul(dx0, Sin(a)) + TrigMul(dy0, Cos(a)) >>

\* squared Euclidean distance between the current and the expected offset
SnapOffsetError2(q) ==
    LET ex == (SnapMoving.x - sIn.transforms[q].x) - SnapExpectedOffset(q)[1]
        ey == (SnapMoving.y - sIn.transforms[q].y) - SnapExpectedOffset(q)[2]
    IN  ex * ex + ey * ey

\* the side of the moving piece on which piece q lies in the grid
SnapSideOf(q) ==
    LET a == SnapMovingInfo
        b == sIn.piecesInfo[q]
    IN  IF b.row = a.row /\ b.col = a.col - 1 THEN "left"
        ELSE IF b.row = a.row /\ b.col = a.col + 1 THEN "right"
        ELSE IF b.col = a.col /\ b.row = a.row - 1 THEN "bottom"
        ELSE "top"

\* C10: for grid-adjacent pieces with matching rotation checkSnapPossibility
\* returns canSnap = true exactly when the distance between the current
\* relative offset and the assembled offset rotated by the neighbour's
\* rotation is <= threshold (inclusive), and edge names the side of the moving
\* piece on which the neighbour lies (piece 1 against piece 0 in 2x2: left).
C10_SnapIffWithinThreshold ==
    (/\ sOut.call = "checkSnapPossibility"
     /\ SnapHasIndex
     /\ SnapAdjacent(sOut.neighbor)
     /\ rotationMatches(SnapMoving.rotation, sIn.transforms[sOut.neighbor].rotation)) =>
        /\ sOut.result # Null
        /\ sOut.result.canSnap <=> (SnapOffsetError2(sOut.neighbor) <= sIn.threshold * sIn.threshold)
        /\ sOut.result.distance2 = SnapOffsetError2(sOut.neighbor)
        /\ sOut.result.edge = SnapSideOf(sOut.neighbor)
        /\ (ArrLen(sIn.piecesInfo) = 4 /\ sIn.pieceIndex = 1 /\ sOut.neighbor = 0) => sOut.result.edge = "left"

\* released exactly at the threshold distance from the expected offset
C10_Witness ==
    /\ sOut.call = "checkSnapPossibility"
    /\ SnapHasIndex
    /\ ArrLen(sIn.piecesInfo) = 4 /\ sIn.pieceIndex = 1 /\ sOut.neighbor = 0
    /\ sIn.threshold = 5 * LenScale
    /\ SnapOffsetError2(0) = sIn.threshold * sIn.threshold
    /\ sOut.result.canSnap /\ sOut.result.edge = "left"


\* the piece infos the viewer keeps are those of generateAllPieces
PiecesInfoAgrees ==
    Generated =>
        piecesInfoOf(gParams) =
            [k \in DOMAIN gPieces |->
                [f \in (DOMAIN gPieces[k]) \ { "geometry" } |-> gPieces[k][f]]]

(* --------------------------- viewer properties ------------------------ *)

\* the pose of piece k in the assembled puzzle cut with params
AssembledPose(k, params) ==
    LET frame == PieceFrame(k % params.gridX, k \div params.gridX, params)
    IN  [ x |-> frame.centerX, y |-> frame.centerY, z |-> params.depth \div 2, rotation |-> 0 ]

\* game mode is on, and the render has seen it and the current parameters
GameModeRendered ==
    /\ store.puzzleGameMode /\ rendered.gameMode
    /\ rendered.params = store.puzzleParams
    /\ rendered.selectedImage = store.selectedImageId

\* C3: in game mode pieceTransforms always holds exactly gridX * gridY
\* entries, one per piece (outside game mode the store keeps none).
C3_TransformCountMatchesGrid ==
    GameModeRendered =>
        ArrLen(store.pieceTransforms) = store.puzzleParams.gridX * store.puzzleParams.gridY

\* the transforms in the shape checkSnapPossibility documents: with index
WithIndex(transforms) ==
    [k \in DOMAIN transforms |-> [ index |-> k ] @@ transforms[k]]

RotationsInTable(transforms) ==
    \A k \in DOMAIN transforms : transforms[k].rotation \in DOMAIN CosTable

\* the candidates of the selected piece for the poses the release reads
ReleaseCandidates ==
    findSnapTargets(rendered.selectedPieceIndex, WithIndex(rendered.pieceTransforms),
                    refs.piecesInfo, rendered.snapDistance)

\* the step is a pointer-up (or pointer-leave) that ends a drag of a piece
\* whose pose is in the store
ReleaseOfDrag ==
    /\ lastEvent'.name \in { "mouseup", "mouseleave" }
    /\ refs.isDragging = "drag"
    /\ rendered.selectedPieceIndex >= 0
    /\ rendered.selectedPieceIndex \in DOMAIN store.pieceTransforms

\* C5: a pointer-up that ends the drag of piece i writes the nearest
\* candidate's target pose to pieceTransforms[i] in the same step when that
\* candidate can snap, so a piece released within snapDistance of its
\* expected offset from a rotation-matched neighbour ends exactly at the
\* target pose; the drag ends, the selection is kept and the camera control
\* is enabled again.
C5_ReleaseSnapsToTarget ==
    [][ ReleaseOfDrag =>
          /\ refs'.isDragging = NotDragging
          /\ refs'.controlsEnabled
          /\ store'.selectedPieceIndex = store.selectedPieceIndex
          /\ ( /\ RotationsInTable(rendered.pieceTransforms)
               /\ Len(ReleaseCandidates) > 0
               /\ ReleaseCandidates[1].canSnap )
             => /\ rendered.selectedPieceIndex \in DOMAIN store'.pieceTransforms
                /\ LET pose == store'.pieceTransforms[rendered.selectedPieceIndex]
                   IN  /\ pose.x = ReleaseCandidates[1].targetX
                       /\ pose.y = ReleaseCandidates[1].targetY
                       /\ pose.rotation = ReleaseCandidates[1].targetRotation ]_vars

\* C7: after Scatter, Assemble leaves gridX * gridY transforms, each the
\* centroid pose of its piece with rotation 0.
C7_AssembleRestoresPoses ==
    lastEvent.name = "assemble" =>
        /\ ArrLen(store.pieceTransforms) = rendered.params.gridX * rendered.params.gridY
        /\ \A k \in DOMAIN store.pieceTransforms :
               store.pieceTransforms[k] = AssembledPose(k, rendered.params)
        /\ ~store.puzzleScattered

\* Assemble was pressed while the viewer still showed the scattered poses
C7_Witness ==
    /\ lastEvent.name = "assemble"
    /\ rendered.scattered
    /\ ArrLen(rendered.pieceTransforms) > 0
    /\ \E k \in DOMAIN rendered.pieceTransforms :
           rendered.pieceTransforms[k] # AssembledPose(k, rendered.params)
    /\ \A k \in DOMAIN store.pieceTransforms :
           store.pieceTransforms[k] = AssembledPose(k, rendered.params)
    /\ ArrLen(store.pieceTransforms) > 0

(* ------------------------ snap engine properties ---------------------- *)

\* the call was checkSnapPossibility and it answered canSnap = true
SnapAnsweredYes ==
    /\ sOut.call = "checkSnapPossibility"
    /\ sOut.result # Null
    /\ sOut.result.canSnap

\* the store after handleMouseUp applies the answer to the moving piece
SnapApplied ==
    updatePieceTransform([ pieceTransforms |-> sIn.transforms ], sIn.pieceIndex,
        [ x |-> sOut.result.targetX, y |-> sOut.result.targetY,
          rotation |-> sOut.result.targetRotation ]).pieceTransforms

\* C11: whenever checkSnapPossibility returns canSnap = true, the target is
\* the neighbour's position plus the assembled offset (moving minus neighbour)
\* rotated by the neighbour's rotation, and targetRotation is the neighbour's
\* rotation; once the pose is written, both pieces have the same rotation.
C11_TargetPoseFromNeighbor ==
    SnapAnsweredYes =>
        /\ sOut.result.targetX = sIn.transforms[sOut.neighbor].x + SnapExpectedOffset(sOut.neighbor)[1]
        /\ sOut.result.targetY = sIn.transforms[sOut.neighbor].y + SnapExpectedOffset(sOut.neighbor)[2]
        /\ sOut.result.targetRotation = sIn.transforms[sOut.neighbor].rotation
        /\ SnapApplied[sIn.pieceIndex].rotation = SnapApplied[sOut.neighbor].rotation
        /\ SnapApplied[sIn.pieceIndex].x = sOut.result.targetX
        /\ SnapApplied[sIn.pieceIndex].y = sOut.result.targetY

\* a snap of a piece that was displaced and turned within the tolerance
C11_Witness ==
    /\ SnapAnsweredYes
    /\ SnapMoving.rotation # sIn.transforms[sOut.neighbor].rotation
    /\ sIn.transforms[sOut.neighbor].rotation # 0
    /\ SnapMoving.x # sOut.result.targetX
    /\ SnapApplied[sIn.pieceIndex].rotation = sIn.transforms[sOut.neighbor].rotation

\* the angle between the moving piece and piece q, folded into [0, pi]
SnapAngleApart(q) ==
    LET d == Abs(SnapMoving.rotation - sIn.transforms[q].rotation) % TwoPi
    IN  Min2(d, TwoPi - d)

\* C12: two adjacent pieces are rotation-compatible exactly when
\* |moving.rotation - neighbour.rotation| mod 2 pi is within 0.1 rad of 0 or
\* of 2 pi, for rotations of any sign and magnitude (0.05 against
\* 2 pi - 0.02, or a difference of 4 pi, are compatible); every other pair
\* is answered with canSnap = false and infinite distance.
C12_RotationCompatibility ==
    (sOut.call = "checkSnapPossibility" /\ SnapHasIndex /\ SnapAdjacent(sOut.neighbor)) =>
        /\ sOut.result # Null
        /\ (SnapAngleApart(sOut.neighbor) < RotTolerance) <=> (sOut.result.distance2 < Infinity)
        /\ ~(SnapAngleApart(sOut.neighbor) < RotTolerance) =>
               (sOut.result.canSnap = FALSE /\ sOut.result.distance2 = Infinity)
        /\ (SnapMoving.rotation = 2 * TwoPi /\ sIn.transforms[sOut.neighbor].rotation = 0) =>
               sOut.result.distance2 < Infinity
        /\ (SnapMoving.rotation = TwoPi - 2 /\ sIn.transforms[sOut.neighbor].rotation = 5) =>
               sOut.result.distance2 < Infinity

\* rotations 2 pi - 0.02 and 0.05 of adjacent pieces at their places: a snap
C12_Witness ==
    /\ sOut.call = "checkSnapPossibility"
    /\ SnapHasIndex
    /\ SnapAdjacent(sOut.neighbor)
    /\ SnapMoving.rotation = TwoPi - 2
    /\ sIn.transforms[sOut.neighbor].rotation = 5
    /\ sOut.result.canSnap

\* C13: findSnapTargets returns only candidates for the up-to-four grid
\* neighbours of pieceIndex, at most one per edge, never the border sentinel
\* nor a non-adjacent piece, each with a finite distance, in non-decreasing
\* order of distance.
C13_CandidatesAdjacentFiniteSorted ==
    sOut.call = "findSnapTargets" =>
        /\ Len(sOut.targets) <= 4
        /\ \A j \in 1..Len(sOut.targets) :
              /\ sOut.targets[j].neighborIndex # NoNeighbor
              /\ sOut.targets[j].neighborIndex \in SnapNeighborsOfMoving
              /\ SnapMovingInfo.neighbors[sOut.targets[j].edge] = sOut.targets[j].neighborIndex
              /\ sOut.targets[j].distance2 < Infinity
              /\ rotationMatches(SnapMoving.rotation, sIn.transforms[sOut.targets[j].neighborIndex].rotation)
        /\ \A j, k \in 1..Len(sOut.targets) :
              /\ (j # k) => sOut.targets[j].edge # sOut.targets[k].edge
              /\ (j < k) => sOut.targets[j].distance2 <= sOut.targets[k].distance2

\* two candidates at different distances, the nearer one listed first
\* although its edge comes later in the neighbour table
C13_Witness ==
    /\ sOut.call = "findSnapTargets"
    /\ Len(sOut.targets) = 2
    /\ sOut.targets[1].distance2 < sOut.targets[2].distance2
    /\ sOut.targets[1].edge = "top"
    /\ sOut.targets[2].edge \in { "left", "right" }

(* ------------- specification of queries on malformed input ------------ *)

\* what is wrong with the arguments of the query
MalformedKinds ==
    { "wellFormed", "indexOutOfRange", "indexNegative", "noInfo", "infoShort",
      "noTransforms", "neighborMissing" }

\* an array without its last element
ButLast(a) == [k \in { j \in DOMAIN a : j < ArrLen(a) - 1 } |-> a[k]]

MalformedInit ==
    /\ \E g \in SnapGrids, kind \in MalformedKinds :
         \E m \in DOMAIN SnapPieces[g], dx \in { 0, 30 }, th \in SnapThresholds, wi \in BOOLEAN :
            \E pieces \in { SnapPieces[g] } :
            \E transforms \in { SnapTransforms(pieces, SnapParamsOf(g).depth, m, m, dx, 0, 0, 0, wi) } :
                sIn = [ kind |-> kind,
                        params |-> SnapParamsOf(g),
                        piecesInfo |-> IF kind = "noInfo" THEN EmptyArr
                                       ELSE IF kind = "infoShort" THEN ButLast(pieces)
                                       ELSE pieces,
                        transforms |-> IF kind = "noTransforms" THEN EmptyArr
                                       ELSE IF kind = "neighborMissing" THEN ButLast(transforms)
                                       ELSE transforms,
                        pieceIndex |-> IF kind = "indexOutOfRange" THEN ArrLen(pieces)
                                       ELSE IF kind = "indexNegative" THEN -1
                                       ELSE m,
                        threshold |-> th ]
    /\ sOut = NoCall
    /\ GeomIdle
    /\ AppIdle

\* checkSnapPossibility on any two transforms of the query
MalformedCheck ==
    /\ sOut = NoCall
    /\ \E p \in DOMAIN sIn.transforms, q \in DOMAIN sIn.transforms :
        /\ p # q
        /\ sOut' = [ call |-> "checkSnapPossibility", piece |-> p, neighbor |-> q,
                     result |-> checkSnapPossibility(sIn.transforms[p], sIn.transforms[q],
                                                     sIn.piecesInfo, sIn.threshold) ]
    /\ UNCHANGED << sIn, geomVars, appVars >>

\* the viewer in game mode while the store holds no transforms: the pieces
\* are mounted, piece pieceIndex is selected, a drag or a rotate may be on
MalformedWorld(dragging, helper) ==
    [ store |-> [initialState EXCEPT !.puzzleGameMode = TRUE,
                                     !.puzzleParams = sIn.params,
                                     !.selectedPieceIndex = sIn.pieceIndex,
                                     !.pieceTransforms = sIn.transforms],
      refs |-> [ piecesInfo |-> sIn.piecesInfo,
                 pieceMeshes |-> [k \in DOMAIN sIn.piecesInfo |-> [pieceIndex |-> k, map |-> FALSE]],
                 cube |-> FALSE, cubeMap |-> FALSE, baseTexture |-> FALSE,
                 scene |-> [ cubes |-> 0, pieces |-> ArrLen(sIn.piecesInfo),
                             maps |-> 0, orphans |-> 0 ],
                 rotationHelper |-> helper, isDragging |-> dragging,
                 controlsEnabled |-> (dragging = NotDragging),
                 dragOffset |-> [ x |-> 0, y |-> 0, z |-> 0 ] ],
      stale |-> FALSE ]

\* what the last render read: the store as it is now, except for the
\* transforms, which were the assembled ones before the effect emptied them
MalformedRendered(w) ==
    [Selected(w.store) EXCEPT
        !.pieceTransforms = assembledTransforms(sIn.piecesInfo, sIn.params)]

\* one pointer event handled in that state
MalformedPointer ==
    /\ sOut = NoCall
    /\ sIn.transforms = EmptyArr
    /\ << sIn.params.gridX, sIn.params.gridY >> \in PanelGrids
    /\ \E dragging \in { NotDragging, "drag", "rotate" }, helper \in BOOLEAN, p \in Pointers,
          hitPiece \in DOMAIN sIn.piecesInfo \cup { NoHit },
          event \in { "mousedown", "mousemove", "mouseup" } :
        \E w \in { MalformedWorld(dragging, helper) } :
        \E c \in { MalformedRendered(w) } :
            sOut' = [ call |-> "pointer", event |-> event, before |-> w, rendered |-> c,
                      after |-> IF event = "mousedown"
                                THEN handleMouseDown(w, c, p @@ [ hitHelper |-> helper, hitPiece |-> hitPiece ])
                                ELSE IF event = "mousemove" THEN handleMouseMove(w, c, p)
                                ELSE handleMouseUp(w, c) ]
    /\ UNCHANGED << sIn, geomVars, appVars >>

MalformedNext == SnapFind \/ MalformedCheck \/ MalformedPointer

SpecMalformed == MalformedInit /\ [][MalformedNext]_vars

\* piece k has a PieceInfo and a PieceTransform that names it
MalformedKnown(k) ==
    /\ k \in DOMAIN sIn.transforms
    /\ IndexOf(sIn.transforms[k]) = k
    /\ k \in DOMAIN sIn.piecesInfo

\* C14: a snap query with a malformed index answers "no result" instead of
\* failing: findSnapTargets returns the empty list when pieceIndex is out of
\* range or has no PieceInfo or no PieceTransform and skips a neighbour whose
\* transform is missing (keeping the others); checkSnapPossibility returns
\* null when either piece has no PieceInfo; a pointer event handled while
\* the store holds no transforms leaves the store unchanged and the
\* interaction usable (the next release ends it and enables the camera).
C14_MalformedQueryAnswersNothing ==
    /\ sOut.call = "findSnapTargets" =>
          /\ (sIn.pieceIndex \notin DOMAIN sIn.transforms \/ sIn.pieceIndex \notin DOMAIN sIn.piecesInfo)
                => sOut.targets = << >>
          /\ \A j \in 1..Len(sOut.targets) : sOut.targets[j].neighborIndex \in DOMAIN sIn.transforms
          /\ MalformedKnown(sIn.pieceIndex) =>
                \A q \in DOMAIN sIn.transforms :
                    (MalformedKnown(q) /\ SnapEdge(sIn.piecesInfo[sIn.pieceIndex].neighbors, q) # "none")
                        => \E j \in 1..Len(sOut.targets) : sOut.targets[j].neighborIndex = q
    /\ (/\ sOut.call = "checkSnapPossibility"
        /\ \/ IndexOf(sIn.transforms[sOut.piece]) \notin DOMAIN sIn.piecesInfo
           \/ IndexOf(sIn.transforms[sOut.neighbor]) \notin DOMAIN sIn.piecesInfo)
          => sOut.result = Null
    /\ sOut.call = "pointer" =>
          /\ sOut.after.store.pieceTransforms = sOut.before.store.pieceTransforms
          /\ sOut.after.refs.isDragging \in { NotDragging, "drag", "rotate" }
          /\ handleMouseUp(sOut.after, sOut.rendered).refs.isDragging = NotDragging
          /\ handleMouseUp(sOut.after, sOut.rendered).refs.controlsEnabled
          /\ handleMouseUp(sOut.after, sOut.rendered).store.pieceTransforms = EmptyArr

\* a query whose top neighbour has no transform still finds the right one
C14_Witness ==
    /\ sOut.call = "findSnapTargets"
    /\ sIn.kind = "neighborMissing"
    /\ ArrLen(sIn.piecesInfo) = 4 /\ sIn.pieceIndex = 1
    /\ Len(sOut.targets) = 1
    /\ sOut.targets[1].neighborIndex = 0

\* a rotate move on an empty store wrote nothing
C14_PointerOnEmptyStore ==
    /\ sOut.call = "pointer"
    /\ sOut.event = "mousemove"
    /\ sOut.before.refs.isDragging = "rotate"
    /\ sOut.before.store.selectedPieceIndex = 0
    /\ sOut.after.store.pieceTransforms = EmptyArr

\* ---------------------------------------------------------------------
\* pointer interaction properties
\* ---------------------------------------------------------------------

\* the step handles a pointer move while a drag or rotate is in progress
MoveStep ==
    /\ nEvents' = nEvents + 1
    /\ lastEvent'.name = "mousemove"

\* C15: a pointer move writes only to the transform of the piece on which
\* the drag or rotate in progress began: x and y in a drag, the rotation in
\* a rotate; every other transform is unchanged
C15_MoveWritesOnlyDraggedPiece ==
    [][MoveStep =>
          /\ DOMAIN store'.pieceTransforms = DOMAIN store.pieceTransforms
          /\ \A k \in DOMAIN store.pieceTransforms :
                IF k = lastEvent.began
                THEN /\ store'.pieceTransforms[k].z = store.pieceTransforms[k].z
                     /\ refs.isDragging = "drag" =>
                           store'.pieceTransforms[k].rotation = store.pieceTransforms[k].rotation
                     /\ refs.isDragging = "rotate" =>
                           /\ store'.pieceTransforms[k].x = store.pieceTransforms[k].x
                           /\ store'.pieceTransforms[k].y = store.pieceTransforms[k].y
                ELSE store'.pieceTransforms[k] = store.pieceTransforms[k]]_vars

\* the step handles a pointer-up while a rotate is in progress
RotateReleaseStep ==
    /\ nEvents' = nEvents + 1
    /\ lastEvent'.name = "mouseup"
    /\ refs.isDragging = "rotate"

\* C16: a pointer-up that ends a rotate writes no pose: every transform is
\* unchanged, the selection is unchanged, the rotate is over and the camera
\* control is enabled again
C16_RotateReleaseWritesNothing ==
    [][RotateReleaseStep =>
          /\ store'.pieceTransforms = store.pieceTransforms
          /\ store'.selectedPieceIndex = store.selectedPieceIndex
          /\ refs'.isDragging = NotDragging
          /\ refs'.controlsEnabled]_vars

\* a rotate that turned the selected piece was ended by a pointer-up
C16_Witness ==
    /\ lastEvent.name = "mouseup"
    /\ lastEvent.dragging = "rotate"
    /\ refs.isDragging = NotDragging /\ refs.controlsEnabled
    /\ store.selectedPieceIndex \in DOMAIN store.pieceTransforms
    /\ store.pieceTransforms[store.selectedPieceIndex].rotation # 0

\* C17: the camera control is disabled exactly while a drag or a rotate is
\* in progress; with none in progress (no piece or a piece selected) it is
\* enabled
C17_CameraOffExactlyWhileDragging ==
    refs.controlsEnabled <=> refs.isDragging = NotDragging

\* a rotate of the selected piece is in progress with the camera control off,
\* after a drag that was released with the camera control back on
C17_Witness ==
    /\ lastEvent.name = "mousedown"
    /\ lastEvent.dragging = NotDragging
    /\ refs.isDragging = "rotate"
    /\ ~refs.controlsEnabled
    /\ store.selectedPieceIndex >= 0

\* the step handles a pointer-up or the pointer leaving the canvas
ReleaseStep ==
    /\ nEvents' = nEvents + 1
    /\ lastEvent'.name \in { "mouseup", "mouseleave" }

\* C18: a drag or rotate in progress is over after a step exactly when the
\* step handles a pointer-up or a pointer-leave, and a pointer-leave leaves
\* the store and the refs as a pointer-up in the same state does
C18_EndsExactlyOnRelease ==
    [][/\ (refs.isDragging # NotDragging /\ refs'.isDragging = NotDragging) => ReleaseStep
       /\ ReleaseStep =>
             /\ refs'.isDragging = NotDragging
             /\ store' = handleMouseUp(World, rendered).store
             /\ refs' = handleMouseUp(World, rendered).refs]_vars

\* the pointer left the canvas during a drag of a piece that has a pose
C18_Witness ==
    /\ lastEvent.name = "mouseleave"
    /\ lastEvent.dragging = "drag"
    /\ refs.isDragging = NotDragging
    /\ store.selectedPieceIndex \in DOMAIN store.pieceTransforms

\* C19: after Scatter and after Assemble no piece is selected and no drag
\* or rotate is in progress, whatever was in progress when the command came
C19_CommandsLeaveIdle ==
    lastEvent.name \in { "scatter", "assemble" } =>
        /\ store.selectedPieceIndex = -1
        /\ refs.isDragging = NotDragging

\* the step is a re-render in game mode that sees the PuzzleParams, the
\* selected image and the game mode of the render before it
RenderOfSameParams ==
    /\ lastEvent'.name = "render"
    /\ nEvents' = nEvents
    /\ rendered.gameMode /\ rendered'.gameMode
    /\ rendered'.params = rendered.params
    /\ rendered'.selectedImage = rendered.selectedImage

\* C20: the transforms are reset only when PuzzleParams or the selected
\* image changes or game mode is entered: a re-render that sees none of
\* these, as after a drag, rotate, scatter, assemble or snap write, leaves
\* every PieceTransform as it is
C20_ResetOnlyOnParamsOrImage ==
    [][RenderOfSameParams => store'.pieceTransforms = store.pieceTransforms]_vars

\* ---------------------------------------------------------------------
\* scene and store properties
\* ---------------------------------------------------------------------

\* C21: after every rebuild the scene holds gridX*gridY piece meshes and no
\* cube in game mode, one cube and no piece mesh outside it, the textures
\* of their materials, and no texture left over from an earlier rebuild
C21_RebuildRetiresOldSolids ==
    /\ IF rendered.gameMode
       THEN /\ refs.scene.pieces = rendered.params.gridX * rendered.params.gridY
            /\ refs.scene.cubes = 0
       ELSE /\ refs.scene.pieces = 0
            /\ refs.scene.cubes = 1
    /\ refs.scene.maps = MapsOf(refs.pieceMeshes) + (IF refs.cubeMap THEN 1 ELSE 0)
    /\ refs.scene.orphans = 0

\* a pointer-down on a piece has just begun a drag of piece lastEvent.began,
\* which has a pose in the store
DragJustBegan ==
    /\ lastEvent.name = "mousedown"
    /\ lastEvent.dragging = NotDragging
    /\ refs.isDragging = "drag"
    /\ lastEvent.began \in DOMAIN store.pieceTransforms

\* the step handles a pointer move at pointer p during a drag of a piece
\* that has a pose in the store
DragMoveStep(p) ==
    /\ MoveStep
    /\ refs.isDragging = "drag"
    /\ lastEvent.began \in DOMAIN store.pieceTransforms
    /\ store' = handleMouseMove(World, rendered, p).store

\* C22: a pointer-down on a piece selects it and records the offset from the
\* pick point to the piece's position, and every pointer move of the drag
\* puts the piece at the pointer's point on the plane plus that offset,
\* with z and rotation unchanged
C22_DragFollowsPointer ==
    /\ [](DragJustBegan =>
            /\ store.selectedPieceIndex = lastEvent.began
            /\ refs.dragOffset.x = store.pieceTransforms[lastEvent.began].x - lastEvent.pick.x
            /\ refs.dragOffset.y = store.pieceTransforms[lastEvent.began].y - lastEvent.pick.y)
    /\ [][\A p \in Pointers : DragMoveStep(p) =>
            /\ store'.pieceTransforms[lastEvent.began].x = p.x + refs.dragOffset.x
            /\ store'.pieceTransforms[lastEvent.began].y = p.y + refs.dragOffset.y
            /\ store'.pieceTransforms[lastEvent.began].z = store.pieceTransforms[lastEvent.began].z
            /\ store'.pieceTransforms[lastEvent.began].rotation
                  = store.pieceTransforms[lastEvent.began].rotation]_vars

\* a pointer-down has just begun a rotate of piece lastEvent.began, which
\* has a pose in the store
RotateJustBegan ==
    /\ lastEvent.name = "mousedown"
    /\ lastEvent.dragging # "rotate"
    /\ refs.isDragging = "rotate"
    /\ lastEvent.began \in DOMAIN store.pieceTransforms

\* the step handles a pointer move at pointer p during a rotate of a piece
\* that has a pose in the store
RotateMoveStep(p) ==
    /\ MoveStep
    /\ refs.isDragging = "rotate"
    /\ lastEvent.began \in DOMAIN store.pieceTransforms
    /\ store' = handleMouseMove(World, rendered, p).store

\* C23: a rotate starts only by a pointer-down on the rotation helper while
\* a piece is selected; it records the piece's rotation, and every pointer
\* move of the rotate sets the rotation to the recorded one plus 0.01 rad
\* per pixel of pointer travel since the pointer-down, with x, y and z
\* unchanged
C23_RotateFollowsPointer ==
    /\ [](RotateJustBegan =>
            refs.dragOffset.z = store.pieceTransforms[lastEvent.began].rotation)
    /\ [][/\ (refs.isDragging # "rotate" /\ refs'.isDragging = "rotate") =>
                /\ lastEvent'.name = "mousedown"
                /\ refs.rotationHelper
                /\ rendered.selectedPieceIndex >= 0
          /\ \A p \in Pointers : RotateMoveStep(p) =>
                /\ store'.pieceTransforms[lastEvent.began].rotation
                      = refs.dragOffset.z + (p.clientX - lastEvent.pick.clientX)
                /\ store'.pieceTransforms[lastEvent.began].x = store.pieceTransforms[lastEvent.began].x
                /\ store'.pieceTransforms[lastEvent.began].y = store.pieceTransforms[lastEvent.began].y
                /\ store'.pieceTransforms[lastEvent.began].z = store.pieceTransforms[lastEvent.began].z]_vars

\* the step handles a pointer-down at pointer p that hits neither a piece
\* nor the rotation helper, with no drag or rotate in progress
MissStep(p) ==
    /\ nEvents' = nEvents + 1
    /\ lastEvent'.name = "mousedown"
    /\ refs.isDragging = NotDragging
    /\ \E w \in { handleMouseDown(World, rendered,
                      p @@ [ hitHelper |-> FALSE, hitPiece |-> NoHit ]) } :
          store' = w.store /\ refs' = w.refs

\* C24: a pointer-down in game mode that hits nothing, with no drag or
\* rotate in progress, deselects: selectedPieceIndex becomes -1, no drag or
\* rotate starts, the camera control stays enabled and no transform changes
C24_MissDeselects ==
    [][\A p \in Pointers : MissStep(p) =>
          /\ store'.selectedPieceIndex = -1
          /\ refs'.isDragging = NotDragging
          /\ refs'.controlsEnabled
          /\ store'.pieceTransforms = store.pieceTransforms]_vars

\* a selected piece with a pose was deselected by a pointer-down that hit
\* nothing
C24_Witness ==
    /\ lastEvent.name = "mousedown"
    /\ lastEvent.dragging = NotDragging
    /\ refs.isDragging = NotDragging /\ refs.controlsEnabled
    /\ store.selectedPieceIndex = -1
    /\ rendered.selectedPieceIndex \in DOMAIN store.pieceTransforms

\* ---------------------------------------------------------------------
\* specification of Scatter as a function of its random draws
\* ---------------------------------------------------------------------

\* draws at the ends and inside the ranges of Math.random()
ScatterEdgeDraws ==
    { [ jitter |-> 0, radiusPct |-> 50, rotation |-> 0 ],
      [ jitter |-> 1, radiusPct |-> 99, rotation |-> TwoPi - 1 ],
      [ jitter |-> 0, radiusPct |-> 75, rotation |-> 157 ],
      [ jitter |-> 1, radiusPct |-> 50, rotation |-> TwoPi - 1 ] }

\* width and height of the solid, in mm
ScatterSizes == { << 100, 100 >>, << 120, 80 >>, << 60, 90 >> }

\* the error of a table cosine times a scatter radius, in length units
TrigError == 2

\* the viewer in game mode with the pieces of params mounted
ScatterWorld(params) ==
    [ store |-> [initialState EXCEPT !.puzzleGameMode = TRUE,
                                     !.puzzleParams = params,
                                     !.selectedPieceIndex = 0,
                                     !.pieceTransforms =
                                         assembledTransforms(piecesInfoOf(params), params)],
      refs |-> [ piecesInfo |-> piecesInfoOf(params),
                 pieceMeshes |-> [k \in DOMAIN piecesInfoOf(params) |->
                                     [pieceIndex |-> k, map |-> FALSE]],
                 cube |-> FALSE, cubeMap |-> FALSE, baseTexture |-> FALSE,
                 scene |-> [ cubes |-> 0, pieces |-> ArrLen(piecesInfoOf(params)),
                             maps |-> 0, orphans |-> 0 ],
                 rotationHelper |-> TRUE, isDragging |-> NotDragging,
                 controlsEnabled |-> TRUE,
                 dragOffset |-> [ x |-> 0, y |-> 0, z |-> 0 ] ],
      stale |-> FALSE ]

ScatterInit ==
    /\ \E g \in PanelGrids, size \in ScatterSizes :
        \E params \in { [initialState.puzzleParams EXCEPT
                            !.gridX = g[1], !.gridY = g[2],
                            !.width = size[1] * LenScale,
                            !.height = size[2] * LenScale] } :
        \E draws \in [0 .. (g[1] * g[2] - 1) -> ScatterEdgeDraws] :
            sIn = [ params |-> params, draws |-> draws ]
    /\ sOut = NoCall
    /\ GeomIdle
    /\ AppIdle

ScatterCall ==
    /\ sOut = NoCall
    /\ \E w \in { ScatterWorld(sIn.params) } :
       \E after \in { handleScatter(w, Selected(w.store), sIn.draws) } :
            sOut' = [ call |-> "handleScatter",
                      transforms |-> after.store.pieceTransforms,
                      scattered |-> after.store.puzzleScattered ]
    /\ UNCHANGED << sIn, geomVars, appVars >>

ScatterNext == ScatterCall

SpecScatter == ScatterInit /\ [][ScatterNext]_vars

\* squared distance of a pose from the origin
ScatterDistance2(t) == t.x * t.x + t.y * t.y

\* 1.5 * max(width, height)
ScatterRadiusOf(params) == (Max2(params.width, params.height) * 3) \div 2

\* C25: Scatter makes one transform per piece, each at a distance from the
\* origin in [0.5, 1.0] * 1.5 * max(width, height), with a rotation in
\* [0, 2 pi) and z = depth / 2
C25_ScatterWithinRing ==
    sOut.call = "handleScatter" =>
        /\ DOMAIN sOut.transforms = 0 .. (sIn.params.gridX * sIn.params.gridY - 1)
        /\ \A k \in DOMAIN sOut.transforms :
              /\ sOut.transforms[k].z * 2 = sIn.params.depth
              /\ sOut.transforms[k].rotation >= 0
              /\ sOut.transforms[k].rotation < TwoPi
              /\ ScatterDistance2(sOut.transforms[k])
                    >= (ScatterRadiusOf(sIn.params) \div 2 - TrigError)
                       * (ScatterRadiusOf(sIn.params) \div 2 - TrigError)
              /\ ScatterDistance2(sOut.transforms[k])
                    <= (ScatterRadiusOf(sIn.params) + TrigError)
                       * (ScatterRadiusOf(sIn.params) + TrigError)

\* six pieces scattered with different draws: one at the inner edge of the
\* ring without rotation, one near the outer edge with nearly a full turn
C25_Witness ==
    /\ sOut.call = "handleScatter"
    /\ ArrLen(sOut.transforms) = 6
    /\ sIn.draws[0].radiusPct = 50 /\ sOut.transforms[0].rotation = 0
    /\ sIn.draws[5].radiusPct = 99 /\ sOut.transforms[5].rotation = TwoPi - 1

(* ------------------ further claims on the partitioner ------------------ *)

\* 0.08 * min(width / gridX, height / gridY), stated independently of the frame
EightPercentOfCell(params) ==
    (8 * Min2(params.width \div params.gridX, params.height \div params.gridY)) \div 100

\* the samples of an edge strictly between its two corners
InnerSamples == 1 .. (Segments - 1)

\* the displacement every inner sample of the interior edges of piece p shows
\* against the straight cell boundary, equals splitOffset at amplitude a
InteriorEdgesSampledAt(p, a) ==
    LET f == PieceFrame(p.col, p.row, gParams)
    IN  /\ p.row > 0 =>
            \A i \in InnerSamples :
                BottomEdgeOf(p)[i + 1][2] - f.yBottom = splitOffset(i, gParams.splitMode, a)
        /\ p.col < gParams.gridX - 1 =>
            \A i \in InnerSamples :
                RightEdgeOf(p)[i + 1][1] - f.xRight = splitOffset(i, gParams.splitMode, a)
        /\ p.row < gParams.gridY - 1 =>
            \A i \in InnerSamples :
                TopEdgeOf(p)[i + 1][2] - f.yTop = splitOffset(i, gParams.splitMode, a)
        /\ p.col > 0 =>
            \A i \in InnerSamples :
                LeftEdgeOf(p)[i + 1][1] - f.xLeft = splitOffset(i, gParams.splitMode, a)

\* C26: every interior edge of a partition is cut with the amplitude
\* 0.08 * min(width / gridX, height / gridY), the same for all pieces (4 for
\* a piece 50 wide whose other dimension is at least 50), so the two pieces
\* sharing an edge sample it with the same amplitude
C26_AmplitudeUniform ==
    /\ Generated =>
        /\ 100 * EightPercentOfCell(gParams)
              = 8 * Min2(gParams.width \div gParams.gridX, gParams.height \div gParams.gridY)
        /\ \A k \in DOMAIN gPieces :
              InteriorEdgesSampledAt(gPieces[k], EightPercentOfCell(gParams))
    /\ \A other \in {50 * LenScale, 60 * LenScale, 120 * LenScale} :
          /\ PieceFrame(0, 0, [ width |-> 50 * LenScale, height |-> other,
                                 gridX |-> 1, gridY |-> 1 ]).amplitude
                = 4 * LenScale
          /\ PieceFrame(1, 1, [ width |-> 100 * LenScale, height |-> 2 * other,
                                 gridX |-> 2, gridY |-> 2 ]).amplitude
                = 4 * LenScale

\* a cut partition whose cells are less wide than high, with an interior edge
\* that leaves the cell boundary by nearly the full amplitude
C26_Witness ==
    /\ Generated
    /\ gParams.splitMode = "wave"
    /\ gParams.gridX = 3 /\ gParams.gridY = 2
    /\ gParams.width = 1800 /\ gParams.height = 3600
    /\ EightPercentOfCell(gParams) = 48
    /\ BottomEdgeOf(gPieces[4])[5][2] - PieceFrame(1, 1, gParams).yBottom = 48

\* the end points createPieceShape drops from the generated edges of the
\* cell (col, row), each paired with the ring point that stands at its corner
DroppedAtCorners(col, row, params) ==
    LET f == PieceFrame(col, row, params)
        bottom == BottomSegment(col, row, params)
        right == RightSegment(col, row, params)
        top == TopSegment(col, row, params)
    IN  (IF col = params.gridX - 1 THEN {} ELSE
            { << generateVerticalEdge(f.xRight, f.yBottom, f.yTop, params.splitMode, f.amplitude)[1],
                 bottom[Len(bottom)] >> })
        \cup
        (IF row = params.gridY - 1 THEN {} ELSE
            { << generateHorizontalEdge(f.xRight, f.xLeft, f.yTop, params.splitMode, f.amplitude)[1],
                 right[Len(right)] >> })
        \cup
        (IF col = 0 THEN {} ELSE
            { << generateVerticalEdge(f.xLeft, f.yTop, f.yBottom, params.splitMode, f.amplitude)[1],
                 top[Len(top)] >>,
              << generateVerticalEdge(f.xLeft, f.yTop, f.yBottom, params.splitMode, f.amplitude)[Segments + 1],
                 bottom[1] >> })

\* the four corners of the cell (col, row)
CellCorners(col, row, params) ==
    LET f == PieceFrame(col, row, params)
    IN  { <<f.xLeft, f.yBottom>>, <<f.xRight, f.yBottom>>,
          <<f.xRight, f.yTop>>, <<f.xLeft, f.yTop>> }

\* the ring of piece p has every corner of its cell exactly once
EachCornerOnce(p) ==
    \A c \in CellCorners(p.col, p.row, gParams) :
        Cardinality({ j \in DOMAIN RingGlobal(p) : RingGlobal(p)[j] = c }) = 1

\* every dropped end point is the ring point of its corner
DroppedPointsCoincide(p) ==
    \A pair \in DroppedAtCorners(p.col, p.row, gParams) : pair[1] = pair[2]

\* C27: for every cut style and every cell, each edge end point dropped by
\* createPieceShape coincides with the point already in the ring at that
\* corner, and the ring contains each corner of the cell exactly once
C27_DroppedPointsAreCorners ==
    Generated =>
        \A k \in DOMAIN gPieces :
            DroppedPointsCoincide(gPieces[k]) /\ EachCornerOnce(gPieces[k])

(* ------- the viewer without pointer input: settling of the effects ------ *)

\* the events after which the effects rebuild the puzzle (entering or leaving
\* game mode, a change of the grid, a change of the image) and the commits
SettleNext ==
    \/ ToggleGameMode
    \/ ChangeGrid
    \/ SelectImage
    \/ Render

\* React commits every pending render
SpecSettle == Init /\ [][SettleNext]_vars /\ WF_vars(Render)

\* no render is pending: the store is as rendered and no effect wrote to it
NoEffectPending == Selected(store) = rendered /\ ~stale

\* pieceTransforms holds the gridX * gridY assembled poses of the partition
HoldsAssembledPoses ==
    /\ ArrLen(store.pieceTransforms) = store.puzzleParams.gridX * store.puzzleParams.gridY
    /\ \A k \in DOMAIN store.pieceTransforms :
          store.pieceTransforms[k] = AssembledPose(k, store.puzzleParams)

\* C28: after entering game mode, or a parameter or image change in game
\* mode, and without further user input, the effect-triggered store writes
\* stop after finitely many commits, with pieceTransforms holding the
\* assembled poses of the current partition and no effect pending
C28_EffectChainSettles ==
    \A n \in 0 .. MaxEvents :
        (store.puzzleGameMode /\ nEvents = n)
            ~> (nEvents > n \/ (NoEffectPending /\ HoldsAssembledPoses))

(* ------------- specification of the difficulty settings --------------- *)

\* GameControls: the two difficulty buttons and the positions of the slider
DifficultyModes == { "easy", "hard" }
SliderValues == { v * LenScale : v \in 1 .. 30 }

DifficultyInit ==
    /\ store = initialState
    /\ lastEvent = [ name |-> "mount", payload |-> 0 ]
    /\ rendered = << >> /\ refs = << >> /\ stale = FALSE /\ nEvents = 0
    /\ GeomIdle
    /\ SnapIdle

Dispatched(state, name, payload) ==
    /\ store' = state
    /\ lastEvent' = [ name |-> name, payload |-> payload ]
    /\ UNCHANGED << rendered, refs, stale, nEvents, geomVars, snapVars >>

\* GameControls: handleDifficultyChange
DifficultyChange ==
    \E mode \in DifficultyModes :
        Dispatched(setDifficultyMode(store, mode), "setDifficultyMode", mode)

\* GameControls: handleSnapDistanceChange
SnapDistanceChange ==
    \E v \in SliderValues :
        Dispatched(setSnapDistance(store, v), "setSnapDistance", v)

ResetState == Dispatched(resetState(store), "resetState", 0)

DifficultyNext ==
    \/ DifficultyChange
    \/ SnapDistanceChange
    \/ ResetState

SpecDifficulty == DifficultyInit /\ [][DifficultyNext]_vars

\* the step moves the slider while the store is in easy mode
SliderMovedInEasy ==
    /\ lastEvent'.name = "setSnapDistance"
    /\ store.difficultyMode = "easy"

\* C29: in every store state reached by setDifficultyMode, setSnapDistance
\* and resetState the active snapDistance is 20 in easy mode and
\* hardSnapDistance in hard mode, and moving the slider in easy mode changes
\* hardSnapDistance only
C29_ActiveSnapDistanceFollowsMode ==
    /\ [](/\ store.difficultyMode = "easy" => store.snapDistance = 20 * LenScale
          /\ store.difficultyMode = "hard" => store.snapDistance = store.hardSnapDistance)
    /\ [][SliderMovedInEasy =>
             store' = [store EXCEPT !.hardSnapDistance = lastEvent'.payload]]_vars

\* the slider was moved to its upper end in easy mode: the stored hard-mode
\* distance is 30 and the active one is still 20
C29_Witness ==
    /\ lastEvent.name = "setSnapDistance"
    /\ store.difficultyMode = "easy"
    /\ store.hardSnapDistance = 30 * LenScale
    /\ store.snapDistance = 20 * LenScale

(* ------------ specification of a snap correction and its re-check ------ *)

\* handleMouseUp: the pose of the moving piece is replaced by the target of
\* a successful checkSnapPossibility (updatePieceTransform merges x, y and
\* rotation into the stored transform)
SnapCorrect ==
    /\ sOut.call = "checkSnapPossibility"
    /\ sOut.result # Null
    /\ sOut.result.canSnap
    /\ sIn' = [sIn EXCEPT !.transforms[sIn.pieceIndex] =
                    [@ EXCEPT !.x = sOut.result.targetX,
                              !.y = sOut.result.targetY,
                              !.rotation = sOut.result.targetRotation]]
    /\ sOut' = [ call |-> "corrected", neighbor |-> sOut.neighbor, first |-> sOut.result,
                 before |-> sIn.transforms[sIn.pieceIndex] ]
    /\ UNCHANGED << geomVars, appVars >>

\* the same pair evaluated again after the correction
SnapCheckAgain ==
    /\ sOut.call = "corrected"
    /\ sOut' = [ call |-> "checkSnapPossibilityAgain", neighbor |-> sOut.neighbor,
                 first |-> sOut.first, before |-> sOut.before,
                 result |-> checkSnapPossibility(sIn.transforms[sIn.pieceIndex],
                                                 sIn.transforms[sOut.neighbor],
                                                 sIn.piecesInfo, sIn.threshold) ]
    /\ UNCHANGED << sIn, geomVars, appVars >>

SnapAgainNext ==
    \/ \E q \in DOMAIN sIn.transforms : SnapCheck(q)
    \/ SnapCorrect
    \/ SnapCheckAgain

SpecSnapAgain == SnapInit /\ [][SnapAgainNext]_vars

\* the squared distance between the pose before the correction and the pose
\* after it
CorrectionMoved2 ==
    (sIn.transforms[sIn.pieceIndex].x - sOut.before.x) * (sIn.transforms[sIn.pieceIndex].x - sOut.before.x)
    + (sIn.transforms[sIn.pieceIndex].y - sOut.before.y) * (sIn.transforms[sIn.pieceIndex].y - sOut.before.y)

\* C30: snap correction is idempotent: once the moving piece has the target
\* pose of a successful checkSnapPossibility, the same pair evaluates to
\* canSnap with distance 0 and the same target pose, and the correction
\* moved the piece by the reported distance, which is at most the threshold
C30_SnapCorrectionIdempotent ==
    sOut.call = "checkSnapPossibilityAgain" =>
        /\ sOut.result # Null
        /\ sOut.result.canSnap
        /\ sOut.result.distance2 = 0
        /\ sOut.result.targetX = sOut.first.targetX
        /\ sOut.result.targetY = sOut.first.targetY
        /\ sOut.result.targetRotation = sOut.first.targetRotation
        /\ sOut.result.edge = sOut.first.edge
        /\ sIn.transforms[sIn.pieceIndex].x = sOut.first.targetX
        /\ sIn.transforms[sIn.pieceIndex].y = sOut.first.targetY
        /\ sIn.transforms[sIn.pieceIndex].rotation = sOut.first.targetRotation
        /\ CorrectionMoved2 = sOut.first.distance2
        /\ sOut.first.distance2 <= sIn.threshold * sIn.threshold

\* a piece off its place and turned by 0.09 against a neighbour turned by
\* 0.05 was corrected, in position and in rotation, and evaluated again
C30_Witness ==
    /\ sOut.call = "checkSnapPossibilityAgain"
    /\ sOut.first.distance2 > 0
    /\ sOut.before.rotation = 9
    /\ sOut.first.targetRotation = 5
    /\ sIn.transforms[sOut.neighbor].rotation = 5
    /\ sOut.result.canSnap

=============================================================================
